---------------------------- MODULE Spec2Model ----------------------------
(***************************************************************************)
(* A model of the hierarchical configuration resolver of lib/_lookup:      *)
(*   - extracted-config.js      extractConfig and its merge policies       *)
(*   - config-array.js          ConfigArray#isRoot                         *)
(*   - config-array-factory.js  normalization, create, loadOnDirectory,    *)
(*                              loadFile, loadInAncestors                  *)
(*   - file-enumerator.js       FileEnumerator                             *)
(*                                                                         *)
(* JavaScript values are tagged records:                                   *)
(*   Undef, Null, Prim(s), Obj(f), Arr(f)  with f a function from string   *)
(*   keys to values (an array's keys are "0", "1", ...).                   *)
(* A thrown exception is an outcome [ok |-> FALSE, error |-> e].           *)
(***************************************************************************)
EXTENDS Integers, Sequences, FiniteSets, TLC

-----------------------------------------------------------------------------
(* JavaScript values *)

Undef == [t |-> "undefined"]

Null == [t |-> "null"]

Prim(s) == [t |-> "prim", v |-> s]

Obj(f) == [t |-> "obj", v |-> f]

Arr(f) == [t |-> "arr", v |-> f]

NoKeys == [k \in {} |-> Undef]

\* Objects with one, two and three keys
Keys1(k1, v1) == [k \in {k1} |-> v1]

Keys2(k1, v1, k2, v2) == [k \in {k1, k2} |-> IF k = k1 THEN v1 ELSE v2]

Keys3(k1, v1, k2, v2, k3, v3) ==
    [k \in {k1, k2, k3} |-> IF k = k1 THEN v1 ELSE IF k = k2 THEN v2 ELSE v3]

\* A rule definition given as an array: [severity, options...]
List(s) == [t |-> "list", v |-> s]

\* obj[key], undefined when the key is absent
Get(o, k) == IF k \in DOMAIN o.v THEN o.v[k] ELSE Undef

Thrown(e) == [ok |-> FALSE, error |-> e]

Returned(v) == [ok |-> TRUE, value |-> v]

RECURSIVE SeqOfSet(_)
SeqOfSet(S) ==
    IF S = {} THEN <<>>
    ELSE LET x == CHOOSE y \in S : TRUE IN <<x>> \o SeqOfSet(S \ {x})

\* `const x = value;` followed by the statements `Then` that use x
Bind(value, Then(_)) == Then(value)

-----------------------------------------------------------------------------
(* extracted-config.js *)

isNonNullObject(x) == x.t \in {"obj", "arr"}

EmptyLike(x) == IF x.t = "arr" THEN Arr(NoKeys) ELSE Obj(NoKeys)

\* A variant that lets the source overwrite what the target holds.
RECURSIVE assignOverwriting(_, _)
assignOverwriting(target, source) ==
    IF ~isNonNullObject(source) THEN target
    ELSE
        LET tk(k) == Get(target, k)
            sk(k) == source.v[k]
            after(k) ==
                IF isNonNullObject(sk(k))
                THEN assignOverwriting(
                         IF isNonNullObject(tk(k)) THEN tk(k)
                         ELSE EmptyLike(sk(k)), sk(k))
                ELSE IF sk(k) # Undef THEN sk(k)
                ELSE tk(k)
            keys == DOMAIN target.v \cup
                    {k \in DOMAIN source.v : after(k) # Undef}
        IN  [target EXCEPT !.v =
                [k \in keys |->
                    IF k \in DOMAIN source.v THEN after(k) ELSE target.v[k]]]

RECURSIVE assignWithoutOverwrite(_, _)
assignWithoutOverwrite(target, source) ==
    IF ~isNonNullObject(source) THEN target
    ELSE
        LET tk(k) == Get(target, k)
            sk(k) == source.v[k]
            \* the value of target[k] after the loop body ran for key k
            after(k) ==
                IF isNonNullObject(tk(k))
                THEN assignWithoutOverwrite(tk(k), sk(k))
                ELSE IF tk(k) = Undef
                THEN IF isNonNullObject(sk(k))
                     THEN assignWithoutOverwrite(EmptyLike(sk(k)), sk(k))
                     ELSE sk(k)
                ELSE tk(k)
            keys == DOMAIN target.v \cup
                    {k \in DOMAIN source.v : after(k) # Undef}
        IN  [target EXCEPT !.v =
                [k \in keys |->
                    IF k \in DOMAIN source.v THEN after(k) ELSE target.v[k]]]

\* A plugin map (id -> reference) is the sequence of its references in
\* insertion order, the order of Object.keys.
PluginMap(refs) == [t |-> "map", v |-> refs]

\* The index of the reference with this id in a plugin map (0: absent).
PluginIndex(plugins, id) ==
    IF \E i \in 1..Len(plugins.v) : plugins.v[i].id = id
    THEN CHOOSE i \in 1..Len(plugins.v) : plugins.v[i].id = id
    ELSE 0

HasError(ref) == "error" \in DOMAIN ref

DuplicatedPlugin(key, targetValue, sourceValue) ==
    [kind |-> "DuplicatedPlugin", key |-> key,
     importer0 |-> targetValue.importerPath,
     importer1 |-> sourceValue.importerPath]

\* The loop body of mergePlugins for one key of `source`.
mergePluginsKey(target, sourceValue) ==
    LET i == PluginIndex(target, sourceValue.id)
    IN  IF i = 0
        THEN IF HasError(sourceValue)
             THEN Thrown(sourceValue.error)
             ELSE Returned(PluginMap(Append(target.v, sourceValue)))
        ELSE LET targetValue == target.v[i]
             IN  IF /\ targetValue.importerPath # sourceValue.importerPath
                    /\ targetValue.importerPath # targetValue.filePath
                    /\ sourceValue.importerPath # sourceValue.filePath
                 THEN Thrown(DuplicatedPlugin(sourceValue.id, targetValue,
                                              sourceValue))
                 ELSE Returned(target)

RECURSIVE mergePluginsFrom(_, _, _)
mergePluginsFrom(target, source, i) ==
    IF i > Len(source.v) THEN Returned(target)
    ELSE LET r == mergePluginsKey(target, source.v[i])
         IN  IF r.ok THEN mergePluginsFrom(r.value, source, i + 1) ELSE r

\* `source` is Undef or a plugin map.
mergePlugins(target, source) ==
    IF source = Undef THEN Returned(target)
    ELSE mergePluginsFrom(target, source, 1)

\* A variant that never takes options from a lower-precedence element.
mergeRulesKeyNoOptions(targetDef, sourceDef) ==
    IF targetDef = Undef
    THEN IF sourceDef.t = "list"
         THEN List(sourceDef.v)
         ELSE List(<<sourceDef.v>>)
    ELSE targetDef

\* A variant that wraps every definition, an array too, in a new array.
mergeRulesKeyWrapped(targetDef, sourceDef) ==
    IF targetDef = Undef
    THEN List(<<sourceDef.v>>)
    ELSE IF /\ Len(targetDef.v) = 1
            /\ sourceDef.t = "list"
            /\ Len(sourceDef.v) >= 2
    THEN List(targetDef.v \o Tail(sourceDef.v))
    ELSE targetDef

\* The loop body of mergeRules for one key of `source`.
mergeRulesKey(targetDef, sourceDef) ==
    IF targetDef = Undef
    THEN IF sourceDef.t = "list"
         THEN List(sourceDef.v)
         ELSE List(<<sourceDef.v>>)
    ELSE IF /\ Len(targetDef.v) = 1
            /\ sourceDef.t = "list"
            /\ Len(sourceDef.v) >= 2
    THEN List(targetDef.v \o Tail(sourceDef.v))
    ELSE targetDef

\* `target` and `source` are objects from rule ids to definitions;
\* `source` may be Undef.
mergeRules(target, source) ==
    IF ~isNonNullObject(source) THEN target
    ELSE Obj([k \in DOMAIN target.v \cup DOMAIN source.v |->
            IF k \in DOMAIN source.v
            THEN mergeRulesKey(Get(target, k), source.v[k])
            ELSE target.v[k]])

\* A processor string is the sequence of its "/"-separated segments.
ProcessorString(segs) == [t |-> "str", segs |-> segs]

\* `!processor`: undefined, null and the empty string are falsy
Falsy(processor) == processor \in {Undef, Null, ProcessorString(<<"">>)}

\* A variant that lets a name without "/" through, unresolved.
resolveProcessorAnyName(config) ==
    IF config.processor = Null THEN Returned(config)
    ELSE IF "segs" \notin DOMAIN config.processor
    THEN Thrown([kind |-> "TypeError",
                 message |-> "config.processor.indexOf is not a function"])
    ELSE IF Len(config.processor.segs) >= 2
    THEN LET pluginName == config.processor.segs[1]
             processorName == Tail(config.processor.segs)
             i == PluginIndex(config.plugins, pluginName)
         IN  IF /\ i # 0
                /\ processorName \in config.plugins.v[i].definition.processors
             THEN Returned([config EXCEPT !.processor =
                     [definition |-> <<config.plugins.v[i].definition.name,
                                       processorName>>,
                      id |-> config.processor]])
             ELSE Thrown([kind |-> "ProcessorNotFound",
                          processor |-> config.processor])
    ELSE Returned(config)

resolveProcessor(config) ==
    IF config.processor = Null THEN Returned(config)
    ELSE IF "segs" \notin DOMAIN config.processor
    THEN Thrown([kind |-> "TypeError",
                 message |-> "config.processor.indexOf is not a function"])
    ELSE IF Len(config.processor.segs) >= 2
    THEN LET pluginName == config.processor.segs[1]
             processorName == Tail(config.processor.segs)
             i == PluginIndex(config.plugins, pluginName)
         IN  IF /\ i # 0
                /\ processorName \in config.plugins.v[i].definition.processors
             THEN Returned([config EXCEPT !.processor =
                     [definition |-> <<config.plugins.v[i].definition.name,
                                       processorName>>,
                      id |-> config.processor]])
             ELSE Thrown([kind |-> "ProcessorNotFound",
                          processor |-> config.processor])
    ELSE Thrown([kind |-> "InvalidProcessorName",
                 processor |-> config.processor])

ExtractedConfigData ==
    [env |-> Obj(NoKeys), globals |-> Obj(NoKeys), parser |-> Null,
     parserOptions |-> Obj(NoKeys), plugins |-> PluginMap(<<>>),
     processor |-> Null, rules |-> Obj(NoKeys), settings |-> Obj(NoKeys)]

\* A compiled predicate applied to a relative path (see defineMatch).
MinimatchMatch(pattern, relPath) == relPath.ext = pattern.ext

CallMatchFile(matchFile, relPath) ==
    /\ matchFile.includes # Null =>
          \E i \in 1..Len(matchFile.includes.v) :
              MinimatchMatch(matchFile.includes.v[i], relPath)
    /\ matchFile.excludes # Null =>
          \A i \in 1..Len(matchFile.excludes.v) :
              ~MinimatchMatch(matchFile.excludes.v[i], relPath)

\* A variant in which every entry that sets a parser replaces the parser
\* chosen so far.
extractEntryParserOverwritten(config, entry) ==
    IF entry.parser # Undef /\ HasError(entry.parser)
    THEN Thrown(entry.parser.error)
    ELSE
        LET c1 == IF entry.parser # Undef
                  THEN [config EXCEPT !.parser = entry.parser]
                  ELSE config
            c2 == IF c1.processor = Null /\ ~Falsy(entry.processor)
                  THEN [c1 EXCEPT !.processor = entry.processor]
                  ELSE c1
            c3 == [c2 EXCEPT
                     !.env = assignWithoutOverwrite(@, entry.env),
                     !.globals = assignWithoutOverwrite(@, entry.globals),
                     !.parserOptions =
                         assignWithoutOverwrite(@, entry.parserOptions),
                     !.settings = assignWithoutOverwrite(@, entry.settings)]
            p == mergePlugins(c3.plugins, entry.plugins)
        IN  IF ~p.ok THEN p
            ELSE Returned([c3 EXCEPT !.plugins = p.value,
                                     !.rules = mergeRules(@, entry.rules)])

\* The loop body of extractConfig for one entry that applies.
extractEntry(config, entry) ==
    IF config.parser = Null /\ entry.parser # Undef /\ HasError(entry.parser)
    THEN Thrown(entry.parser.error)
    ELSE
        LET c1 == IF config.parser = Null /\ entry.parser # Undef
                  THEN [config EXCEPT !.parser = entry.parser]
                  ELSE config
            c2 == IF c1.processor = Null /\ ~Falsy(entry.processor)
                  THEN [c1 EXCEPT !.processor = entry.processor]
                  ELSE c1
            c3 == [c2 EXCEPT
                     !.env = assignWithoutOverwrite(@, entry.env),
                     !.globals = assignWithoutOverwrite(@, entry.globals),
                     !.parserOptions =
                         assignWithoutOverwrite(@, entry.parserOptions),
                     !.settings = assignWithoutOverwrite(@, entry.settings)]
            p == mergePlugins(c3.plugins, entry.plugins)
        IN  IF ~p.ok THEN p
            ELSE Returned([c3 EXCEPT !.plugins = p.value,
                                     !.rules = mergeRules(@, entry.rules)])

\* A variant of the walk that ignores the entries' predicates.
RECURSIVE extractLoopUnfiltered(_, _, _, _)
extractLoopUnfiltered(entries, targetFilePath, i, config) ==
    IF i < 1 THEN Returned(config)
    ELSE LET r == extractEntry(config, entries[i])
         IN  IF r.ok
             THEN extractLoopUnfiltered(entries, targetFilePath, i - 1,
                                        r.value)
             ELSE r

RECURSIVE extractLoop(_, _, _, _)
extractLoop(entries, targetFilePath, i, config) ==
    IF i < 1 THEN Returned(config)
    ELSE LET entry == entries[i]
         IN  IF entry.matchFile # Undef
                /\ ~CallMatchFile(entry.matchFile, targetFilePath)
             THEN extractLoop(entries, targetFilePath, i - 1, config)
             ELSE LET r == extractEntry(config, entry)
                  IN  IF r.ok
                      THEN extractLoop(entries, targetFilePath, i - 1, r.value)
                      ELSE r

extractConfig(entries, targetFilePath) ==
    LET r == extractLoop(entries, targetFilePath, Len(entries),
                         ExtractedConfigData)
    IN  IF r.ok THEN resolveProcessor(r.value) ELSE r

(* The objects extractConfig writes to.  config.rules[k] holds an array
   object; `owners[k]` is the index of the element whose rules[k] is that
   very object, or 0 when the array was created by this call. *)

\* A variant that stores the element's own array as the merged rule.
ruleOwnersAliased(owners, target, source, i) ==
    IF ~isNonNullObject(source) THEN owners
    ELSE [k \in DOMAIN owners \cup DOMAIN source.v |->
             IF k \in DOMAIN source.v /\ Get(target, k) = Undef
             THEN IF source.v[k].t = "list" THEN i ELSE 0
             ELSE owners[k]]

\* The owners after mergeRules(target, source) for element i: `[...sourceDef]`
\* and `[sourceDef]` are new arrays.
ruleOwners(owners, target, source, i) ==
    IF ~isNonNullObject(source) THEN owners
    ELSE [k \in DOMAIN owners \cup DOMAIN source.v |->
             IF k \in DOMAIN source.v /\ Get(target, k) = Undef
             THEN 0
             ELSE owners[k]]

\* The elements after mergeRules(target, source) gave `merged`: a push on
\* an array an element owns shows in that element.
rulesPushed(sources, owners, source, merged) ==
    IF ~isNonNullObject(source) THEN sources
    ELSE [j \in 1..Len(sources) |->
             IF ~isNonNullObject(sources[j].rules) THEN sources[j]
             ELSE [sources[j] EXCEPT !.rules =
                      Obj([k \in DOMAIN sources[j].rules.v |->
                              IF /\ k \in DOMAIN source.v
                                 /\ k \in DOMAIN owners
                                 /\ owners[k] = j
                              THEN merged.v[k]
                              ELSE sources[j].rules.v[k]])]]

\* The elements as the walk of extractConfig leaves them
RECURSIVE sourcesLoop(_, _, _, _, _)
sourcesLoop(sources, targetFilePath, i, config, owners) ==
    IF i < 1 THEN sources
    ELSE IF sources[i].matchFile # Undef
            /\ ~CallMatchFile(sources[i].matchFile, targetFilePath)
    THEN sourcesLoop(sources, targetFilePath, i - 1, config, owners)
    ELSE Bind(extractEntry(config, sources[i]), LAMBDA r :
         IF ~r.ok THEN sources
         ELSE sourcesLoop(rulesPushed(sources, owners, sources[i].rules,
                                      r.value.rules),
                          targetFilePath, i - 1, r.value,
                          ruleOwners(owners, config.rules, sources[i].rules,
                                     i)))

\* The array after extractConfig(entries, targetFilePath)
extractSources(entries, targetFilePath) ==
    sourcesLoop(entries, targetFilePath, Len(entries), ExtractedConfigData,
                [k \in {} |-> 0])

-----------------------------------------------------------------------------
(* config-array-factory.js: ConfigArrayElement *)

\* JavaScript's `root && !matchFile`
RootFlag(root, matchFile) ==
    IF root = Undef \/ root = Prim("false") THEN root
    ELSE IF matchFile = Undef THEN Prim("true") ELSE Prim("false")

NoBody ==
    [env |-> Undef, globals |-> Undef, parser |-> Undef,
     parserOptions |-> Undef, plugins |-> Undef, processor |-> Undef,
     root |-> Undef, rules |-> Undef, settings |-> Undef]

ConfigArrayElement(body, name, filePath, matchFile) ==
    [name |-> name, filePath |-> filePath, matchFile |-> matchFile,
     env |-> body.env, globals |-> body.globals, parser |-> body.parser,
     parserOptions |-> body.parserOptions, plugins |-> body.plugins,
     processor |-> body.processor,
     root |-> RootFlag(body.root, matchFile),
     rules |-> body.rules, settings |-> body.settings]

\* normalizePatterns: `patterns` is Undef, one pattern or a List of them;
\* the result is a non-empty List of patterns, or null
normalizePatterns(patterns) ==
    IF patterns.t = "list" /\ Len(patterns.v) >= 1 THEN patterns
    ELSE IF patterns.t = "glob" THEN List(<<patterns>>)
    ELSE Null

\* defineMatch: the compiled predicate, undefined when neither list is given
defineMatch(files, excludedFiles) ==
    LET includes == normalizePatterns(files)
        excludes == normalizePatterns(excludedFiles)
    IN  IF includes = Null /\ excludes = Null THEN Undef
        ELSE [includes |-> includes, excludes |-> excludes]

-----------------------------------------------------------------------------
(* config-array.js: ConfigArray.  An array is the sequence of its items. *)

RECURSIVE isRootFrom(_, _)
isRootFrom(array, i) ==
    IF i < 1 THEN FALSE
    ELSE IF array[i].root = Prim("true") THEN TRUE
    ELSE IF array[i].root = Prim("false") THEN FALSE
    ELSE isRootFrom(array, i - 1)

isRoot(array) == isRootFrom(array, Len(array))

\* ConfigArray#matchFile
arrayMatchFile(array, relativePath) ==
    \E i \in 1..Len(array) :
        /\ array[i].matchFile # Undef
        /\ CallMatchFile(array[i].matchFile, relativePath)

-----------------------------------------------------------------------------
(* Paths, files and modules *)

\* A path is the sequence of its segments; <<>> is the filesystem root.
dirname(path) ==
    IF path = <<>> THEN <<>> ELSE SubSeq(path, 1, Len(path) - 1)

basename(path) == IF path = <<>> THEN "" ELSE path[Len(path)]

join(directoryPath, filename) == Append(directoryPath, filename)

configFilenames ==
    <<".eslintrc.js", ".eslintrc.yaml", ".eslintrc.yml", ".eslintrc.json",
      ".eslintrc", "package.json">>

extname(path) ==
    IF basename(path) \in {".eslintrc.js", "eslint-recommended.js",
                           "eslint-all.js", "index.js"} THEN ".js"
    ELSE IF basename(path) \in {".eslintrc.json", "package.json",
                                "custom.json", "rootcfg.json",
                                "shared.json"} THEN ".json"
    ELSE IF basename(path) = ".eslintrc.yaml" THEN ".yaml"
    ELSE IF basename(path) = ".eslintrc.yml" THEN ".yml"
    ELSE ""

eslintRecommendedPath == <<"eslint", "conf", "eslint-recommended.js">>

eslintAllPath == <<"eslint", "conf", "eslint-all.js">>

HomeDir == <<"home">>

\* What a file holds, as its loader reads it:
\*   FileData(d)     a config object d
\*   FileEmpty       nothing (an empty YAML file, a script exporting null)
\*   PackageJson(d)  a package.json whose eslintConfig member is d (or Undef)
\*   FileBroken(e)   reading or parsing it throws e
FileData(d) == [t |-> "data", data |-> d]

FileEmpty == [t |-> "empty"]

PackageJson(d) == [t |-> "package", eslintConfig |-> d]

FileBroken(e) == [t |-> "broken", error |-> e]

\* A config object as a file or an option gives it; a member that is
\* absent is Undef.
EmptyConfigData ==
    [files |-> Undef, excludedFiles |-> Undef, extends |-> Undef,
     overrides |-> Undef, parser |-> Undef, plugins |-> Undef,
     env |-> Undef, globals |-> Undef, parserOptions |-> Undef,
     processor |-> Undef, root |-> Undef, rules |-> Undef,
     settings |-> Undef]

SyntaxError(path) == [kind |-> "SyntaxError", path |-> path]

SystemError(code, path) == [kind |-> "SystemError", code |-> code, path |-> path]

TypeError(message) == [kind |-> "TypeError", message |-> message]

ErrorCode(error) == IF "code" \in DOMAIN error THEN error.code ELSE ""

\* loadConfigFile: the config object of a file, null, or the error thrown.
\* `fs` maps the paths of the files that exist to what they hold.
loadConfigFile(fs, filePath) ==
    IF filePath \notin DOMAIN fs
    THEN Thrown(SystemError(IF extname(filePath) = ".js"
                            THEN "MODULE_NOT_FOUND" ELSE "ENOENT", filePath))
    ELSE LET file == fs[filePath]
         IN  IF file.t = "broken" THEN Thrown(file.error)
             ELSE IF extname(filePath) = ".js"
             THEN Returned(IF file.t = "data" THEN file.data ELSE Null)
             ELSE IF extname(filePath) = ".json"
             THEN IF file.t = "empty" THEN Thrown(SyntaxError(filePath))
                  ELSE IF basename(filePath) = "package.json"
                  THEN Returned(IF file.t = "package"
                                   /\ file.eslintConfig # Undef
                                THEN file.eslintConfig ELSE Null)
                  ELSE Returned(file.data)
             ELSE Returned(IF file.t = "data" THEN file.data
                           ELSE EmptyConfigData)

-----------------------------------------------------------------------------
(* Module resolution (module-resolver.js and naming.js) *)

\* The modules that are installed: module name -> file path and exports.
\* A module name is <<name>> for a parser, <<"eslint-plugin", name>> for a
\* plugin and <<"eslint-config", name>> for a shareable config.
PluginWithConfigs(name, processors, configs) ==
    [name |-> name, processors |-> processors, configs |-> configs]

InstalledModules ==
    (<<"P1">> :> [filePath |-> <<"w", "node_modules", "P1", "index.js">>,
                  definition |-> [name |-> "P1"]])
    @@ (<<"eslint-plugin", "p">> :>
           [filePath |-> <<"w", "node_modules", "eslint-plugin-p", "index.js">>,
            definition |->
                PluginWithConfigs("d1", {<<".md">>},
                    [c \in {"recommended"} |->
                        [EmptyConfigData EXCEPT
                            !.root = Prim("true"),
                            !.rules = Obj(Keys1("p/x", Prim("warn")))]])])
    @@ (<<"eslint-config", "shared">> :>
           [filePath |-> <<"w", "node_modules", "eslint-config-shared",
                           "shared.json">>,
            definition |-> [name |-> "shared"]])

\* ModuleResolver.resolve
resolve(moduleName, importerPath) ==
    IF moduleName \in DOMAIN InstalledModules
    THEN Returned(InstalledModules[moduleName].filePath)
    ELSE Thrown([kind |-> "SystemError", code |-> "MODULE_NOT_FOUND",
                 path |-> moduleName, importerPath |-> importerPath])

\* naming.normalizePackageName(name, prefix)
normalizePackageName(name, prefix) == <<prefix, name>>

\* naming.getShorthandName(longName, prefix)
getShorthandName(longName, prefix) == longName[2]

\* The plugins the caller preloaded (additionalPluginPool): id -> definition
additionalPluginPool ==
    [id \in {"pool"} |-> [name |-> "pooled", processors |-> {}]]

\* The names in which name.match(/\s+/) finds whitespace
HasWhitespace(name) == name \in {"bad name"}

-----------------------------------------------------------------------------
(* config-array-factory.js: loading of parsers and plugins *)

loadParser(nameOrPath, importerPath) ==
    LET r == resolve(<<nameOrPath>>, importerPath)
    IN  IF r.ok
        THEN [definition |-> InstalledModules[<<nameOrPath>>].definition,
              filePath |-> r.value, id |-> nameOrPath,
              importerPath |-> importerPath]
        ELSE [error |-> r.error, id |-> nameOrPath,
              importerPath |-> importerPath]

_loadPlugin(name, importerPath) ==
    LET longName == normalizePackageName(name, "eslint-plugin")
        id == getShorthandName(longName, "eslint-plugin")
    IN  IF HasWhitespace(name)
        THEN [error |-> [kind |-> "WhitespaceFound", pluginName |-> longName],
              id |-> id, importerPath |-> importerPath]
        ELSE IF id \in DOMAIN additionalPluginPool
        THEN [definition |-> additionalPluginPool[id],
              filePath |-> importerPath, id |-> id,
              importerPath |-> importerPath]
        ELSE LET r == resolve(longName, importerPath)
             IN  IF r.ok
                 THEN [definition |-> InstalledModules[longName].definition,
                       filePath |-> r.value, id |-> id,
                       importerPath |-> importerPath]
                 ELSE [error |-> r.error, id |-> id,
                       importerPath |-> importerPath]

\* map[id] = ref on a plugin map
PluginMapSet(map, id, ref) ==
    IF PluginIndex(map, id) = 0 THEN PluginMap(Append(map.v, ref))
    ELSE PluginMap([map.v EXCEPT ![PluginIndex(map, id)] = ref])

\* _loadPlugins as the source has it: the callback of reduce calls
\* this._loadPlugins with one name, and a name (a string) has no reduce
\* method.  `names` is a List of names, or one name (a Prim).
RECURSIVE _loadPlugins(_, _)
RECURSIVE reducePlugins(_, _, _, _)
reducePlugins(names, i, map, importerPath) ==
    IF i > Len(names) THEN Returned(map)
    ELSE LET plugin == _loadPlugins(names[i], importerPath)
         IN  IF ~plugin.ok THEN plugin
             ELSE reducePlugins(names, i + 1,
                      PluginMapSet(map, "undefined",
                          [id |-> "undefined", map |-> plugin.value]),
                      importerPath)

_loadPlugins(names, importerPath) ==
    IF names.t # "list"
    THEN Thrown(TypeError("names.reduce is not a function"))
    ELSE reducePlugins(names.v, 1, PluginMap(<<>>), importerPath)

-----------------------------------------------------------------------------
(* config-array-factory.js: normalization *)

\* An assignment to the `name` property of a function, which is read-only
defineAnd(f, g) ==
    Thrown(TypeError("Cannot assign to read only property 'name'"))

\* What a generator does when it is run to its end: the items it yields
\* and the error it then throws (Null when it returns).
Gen(items, error) == [items |-> items, error |-> error]

\* One generator delegating to two others in turn; `g2` is not started when
\* `g1` throws.
GenThen(g1, g2) ==
    IF g1.error # Null THEN g1 ELSE Gen(g1.items \o g2.items, g2.error)

\* [...generator]
Spread(g) == IF g.error # Null THEN Thrown(g.error) ELSE Returned(g.items)

RECURSIVE combineMatchFileFrom(_, _, _)
combineMatchFileFrom(normalizedConfig, matchFile, i) ==
    IF i > Len(normalizedConfig.items) THEN Gen(<<>>, normalizedConfig.error)
    ELSE LET configData == normalizedConfig.items[i]
         IN  IF configData.matchFile # Undef
             THEN Gen(<<>>, defineAnd(Undef, matchFile).error)
             ELSE GenThen(
                      Gen(<<[configData EXCEPT !.matchFile = matchFile]>>,
                          Null),
                      combineMatchFileFrom(normalizedConfig, matchFile, i + 1))

combineMatchFile(normalizedConfig, matchFile) ==
    IF matchFile # Undef
    THEN combineMatchFileFrom(normalizedConfig, matchFile, 1)
    ELSE normalizedConfig

configMissingError(configName) ==
    [kind |-> "ExtendConfigMissing", configName |-> configName]

\* A generator object that was yielded as an item: it has none of the
\* properties of an element.
GeneratorObject(configData, filePath, name) ==
    [name |-> Undef, filePath |-> Undef, matchFile |-> Undef,
     env |-> Undef, globals |-> Undef, parser |-> Undef,
     parserOptions |-> Undef, plugins |-> Undef, processor |-> Undef,
     root |-> Undef, rules |-> Undef, settings |-> Undef,
     generator |-> [configData |-> configData, filePath |-> filePath,
                    name |-> name]]

\* The processor ids that start with "."
StartsWithDot(processorId) == Head(processorId) \in {".md", ".vue"}

\* The file pattern `*${processorId}`
StarPattern(processorId) ==
    [t |-> "glob", ext |-> IF Head(processorId) = ".md" THEN "md" ELSE "vue"]

\* The items yielded for the extension processors of one plugin
processorItems(pluginId, plugin, filePath, name) ==
    IF plugin = Undef \/ "processors" \notin DOMAIN plugin THEN <<>>
    ELSE LET ids == SelectSeq(SeqOfSet(plugin.processors), StartsWithDot)
         IN  [i \in 1..Len(ids) |->
                 GeneratorObject(
                     [EmptyConfigData EXCEPT
                         !.files = List(<<StarPattern(ids[i])>>),
                         !.processor = ProcessorString(<<pluginId>> \o ids[i])],
                     filePath,
                     name \o <<"#processors">> \o ids[i])]

RECURSIVE extensionProcessors(_, _, _, _)
extensionProcessors(plugins, i, filePath, name) ==
    IF plugins = Undef \/ i > Len(plugins.v) THEN <<>>
    ELSE processorItems(plugins.v[i].id,
                        IF "definition" \in DOMAIN plugins.v[i]
                        THEN plugins.v[i].definition ELSE Undef,
                        filePath, name)
         \o extensionProcessors(plugins, i + 1, filePath, name)

OverridesName(name, i) ==
    Append(name, <<"#overrides[0]", "#overrides[1]", "#overrides[2]">>[i])

\* The forms of an `extends` entry
ExtendsCore(name) == [t |-> "extends", kind |-> "eslint:", name |-> name]

ExtendsPlugin(pluginName, configName) ==
    [t |-> "extends", kind |-> "plugin:", pluginName |-> pluginName,
     name |-> configName]

ExtendsPackage(name) == [t |-> "extends", kind |-> "package", name |-> name]

ExtendsAbsolute(path) == [t |-> "extends", kind |-> "absolute", path |-> path]

ExtendsRelative(path) == [t |-> "extends", kind |-> "relative", path |-> path]

\* The entry as the string the config file holds, used as a config name
ExtendsString(extendName) ==
    IF extendName.kind = "plugin:"
    THEN <<"plugin:", extendName.pluginName, extendName.name>>
    ELSE IF extendName.kind \in {"absolute", "relative"}
    THEN extendName.path
    ELSE <<extendName.kind, extendName.name>>

\* A missing `name` option is the empty name <<>>, a missing `filePath`
\* option the empty path <<>>.
RECURSIVE _normalizeConfigData(_, _, _, _)
RECURSIVE _loadExtends(_, _, _)
RECURSIVE _loadConfigData(_, _, _)
RECURSIVE expandExtends(_, _, _, _, _)
RECURSIVE expandOverrides(_, _, _, _, _, _)

_loadConfigData(fs, filePath, name) ==
    LET configData == loadConfigFile(fs, filePath)
    IN  IF ~configData.ok THEN Gen(<<>>, configData.error)
        ELSE IF configData.value = Null
        THEN Gen(<<>>, [kind |-> "ConfigDataNotFound",
                        name |-> IF name # <<>> THEN name ELSE filePath])
        ELSE _normalizeConfigData(fs, configData.value, filePath, name)

_loadExtends(fs, extendName, filePath) ==
    LET name == ExtendsString(extendName)
    IN  IF extendName.kind = "eslint:"
        THEN IF extendName.name = "recommended"
             THEN _loadConfigData(fs, eslintRecommendedPath, name)
             ELSE IF extendName.name = "all"
             THEN _loadConfigData(fs, eslintAllPath, name)
             ELSE Gen(<<>>, configMissingError(name))
        ELSE IF extendName.kind = "plugin:"
        THEN LET plugin == _loadPlugin(extendName.pluginName, filePath)
                 pluginConfigData ==
                     IF /\ "definition" \in DOMAIN plugin
                        /\ "configs" \in DOMAIN plugin.definition
                        /\ extendName.name \in DOMAIN plugin.definition.configs
                     THEN plugin.definition.configs[extendName.name]
                     ELSE Undef
             IN  IF pluginConfigData # Undef
                 THEN _normalizeConfigData(fs, pluginConfigData,
                                           plugin.filePath, name)
                 ELSE Gen(<<>>, configMissingError(name))
        ELSE IF extendName.kind = "package"
        THEN LET configFilePath ==
                     resolve(normalizePackageName(extendName.name,
                                                  "eslint-config"), filePath)
             IN  IF ~configFilePath.ok THEN Gen(<<>>, configFilePath.error)
                 ELSE _loadConfigData(fs, configFilePath.value, name)
        ELSE IF extendName.kind = "absolute"
        THEN _loadConfigData(fs, extendName.path, <<>>)
        ELSE _loadConfigData(fs, dirname(filePath) \o extendName.path, <<>>)

expandExtends(fs, extendList, i, filePath, matchFile) ==
    IF i > Len(extendList) THEN Gen(<<>>, Null)
    ELSE GenThen(
             combineMatchFile(_loadExtends(fs, extendList[i], filePath),
                              matchFile),
             expandExtends(fs, extendList, i + 1, filePath, matchFile))

expandOverrides(fs, overrideList, i, filePath, name, matchFile) ==
    IF i > Len(overrideList) THEN Gen(<<>>, Null)
    ELSE GenThen(
             combineMatchFile(
                 _normalizeConfigData(fs, overrideList[i], filePath,
                                      OverridesName(name, i)),
                 matchFile),
             expandOverrides(fs, overrideList, i + 1, filePath, name,
                             matchFile))

_normalizeConfigData(fs, configData, filePath, nameOption) ==
    LET name == IF nameOption = <<>> THEN <<basename(filePath)>>
                ELSE nameOption
        matchFile == defineMatch(configData.files, configData.excludedFiles)
        extendList == IF configData.extends = Undef THEN <<>>
                      ELSE IF configData.extends.t = "list"
                      THEN configData.extends.v
                      ELSE <<configData.extends>>
        overrideList == IF configData.overrides = Undef THEN <<>>
                        ELSE configData.overrides.v
        parser == IF configData.parser # Undef
                  THEN loadParser(configData.parser.v, filePath)
                  ELSE Undef
        plugins == IF configData.plugins # Undef
                   THEN _loadPlugins(configData.plugins, filePath)
                   ELSE Returned(Undef)
        configBody ==
            [env |-> configData.env, globals |-> configData.globals,
             parser |-> parser, parserOptions |-> configData.parserOptions,
             plugins |-> plugins.value, processor |-> configData.processor,
             root |-> configData.root, rules |-> configData.rules,
             settings |-> configData.settings]
    IN  GenThen(
            expandExtends(fs, extendList, 1, filePath, matchFile),
            IF ~plugins.ok THEN Gen(<<>>, plugins.error)
            ELSE GenThen(
                     Gen(extensionProcessors(plugins.value, 1, filePath, name)
                         \o <<ConfigArrayElement(configBody, name, filePath,
                                                 matchFile)>>, Null),
                     expandOverrides(fs, overrideList, 1, filePath, name,
                                     matchFile)))

\* src/unnamed/part_001 holds the same normalization as functions of a
\* module.  Its loadPlugin has no pool of additional plugins.
loadPlugin(name, importerPath) ==
    LET longName == normalizePackageName(name, "eslint-plugin")
        id == getShorthandName(longName, "eslint-plugin")
    IN  IF HasWhitespace(name)
        THEN [error |-> [kind |-> "WhitespaceFound", pluginName |-> longName],
              id |-> id, importerPath |-> importerPath]
        ELSE LET r == resolve(longName, importerPath)
             IN  IF r.ok
                 THEN [definition |-> InstalledModules[longName].definition,
                       filePath |-> r.value, id |-> id,
                       importerPath |-> importerPath]
                 ELSE [error |-> r.error, id |-> id,
                       importerPath |-> importerPath]

\* names.reduce of loadPlugins, from the i-th name
RECURSIVE loadPluginsFrom(_, _, _, _)
loadPluginsFrom(names, i, map, importerPath) ==
    IF i > Len(names) THEN map
    ELSE Bind(loadPlugin(names[i].v, importerPath), LAMBDA plugin :
         loadPluginsFrom(names, i + 1, PluginMapSet(map, plugin.id, plugin),
                         importerPath))

loadPlugins(names, importerPath) ==
    loadPluginsFrom(names.v, 1, PluginMap(<<>>), importerPath)

\* normalizeConfigData of part_001.  The entries of `extends` and
\* `overrides` are expanded by the operators above, which differ from
\* part_001's only where an entry lists plugins itself.
normalizeConfigData(fs, configData, filePath, nameOption) ==
    LET name == IF nameOption = <<>> THEN <<basename(filePath)>>
                ELSE nameOption
        matchFile == defineMatch(configData.files, configData.excludedFiles)
        extendList == IF configData.extends = Undef THEN <<>>
                      ELSE IF configData.extends.t = "list"
                      THEN configData.extends.v
                      ELSE <<configData.extends>>
        overrideList == IF configData.overrides = Undef THEN <<>>
                        ELSE configData.overrides.v
        parser == IF configData.parser # Undef
                  THEN loadParser(configData.parser.v, filePath)
                  ELSE Undef
        plugins == IF configData.plugins # Undef
                   THEN loadPlugins(configData.plugins, filePath)
                   ELSE Undef
        configBody ==
            [env |-> configData.env, globals |-> configData.globals,
             parser |-> parser, parserOptions |-> configData.parserOptions,
             plugins |-> plugins, processor |-> configData.processor,
             root |-> configData.root, rules |-> configData.rules,
             settings |-> configData.settings]
    IN  GenThen(
            expandExtends(fs, extendList, 1, filePath, matchFile),
            GenThen(
                Gen(extensionProcessors(plugins, 1, filePath, name)
                    \o <<ConfigArrayElement(configBody, name, filePath,
                                            matchFile)>>, Null),
                expandOverrides(fs, overrideList, 1, filePath, name,
                                matchFile)))

\* A variant in which a candidate that exists and holds no config ends the
\* search.
RECURSIVE loadConfigDataOnDirectoryFromFirstFile(_, _, _, _)
loadConfigDataOnDirectoryFromFirstFile(fs, directoryPath, name, k) ==
    IF k > Len(configFilenames) THEN Returned(Null)
    ELSE LET filePath == join(directoryPath, configFilenames[k])
             configData == loadConfigFile(fs, filePath)
             next == loadConfigDataOnDirectoryFromFirstFile(
                         fs, directoryPath, name, k + 1)
         IN  IF configData.ok
             THEN IF configData.value # Null
                  THEN Returned(_normalizeConfigData(fs, configData.value,
                                                     filePath, name))
                  ELSE Returned(Null)
             ELSE IF ErrorCode(configData.error)
                        \notin {"ENOENT", "MODULE_NOT_FOUND"}
             THEN configData
             ELSE next

RECURSIVE loadConfigDataOnDirectoryFrom(_, _, _, _)
loadConfigDataOnDirectoryFrom(fs, directoryPath, name, k) ==
    IF k > Len(configFilenames) THEN Returned(Null)
    ELSE LET filePath == join(directoryPath, configFilenames[k])
             configData == loadConfigFile(fs, filePath)
             next == loadConfigDataOnDirectoryFrom(fs, directoryPath, name,
                                                   k + 1)
         IN  IF configData.ok
             THEN IF configData.value # Null
                  THEN Returned(_normalizeConfigData(fs, configData.value,
                                                     filePath, name))
                  ELSE next
             ELSE IF ErrorCode(configData.error)
                        \notin {"ENOENT", "MODULE_NOT_FOUND"}
             THEN configData
             ELSE next

\* The generator of the directory's config, null when it has none
_loadConfigDataOnDirectory(fs, directoryPath, name) ==
    loadConfigDataOnDirectoryFrom(fs, directoryPath, name, 1)

-----------------------------------------------------------------------------
(* config-array-factory.js: the operations of the factory.  The heap is the
   sequence of the ConfigArray objects created so far; an array is known by
   its index in the heap, so two arrays with equal items stay two objects.
   An operation gives the heap it leaves and its outcome: the array it
   returns or the error it throws. *)

\* null, where an array is expected
NoArray == 0

Done(heap, outcome) == [heap |-> heap, outcome |-> outcome]

\* A variant that keeps the parent whatever the root flags say.
createKeepingParent(heap, elements, parentConfigArray) ==
    IF elements = Null
    THEN IF parentConfigArray # NoArray
         THEN Done(heap, Returned(parentConfigArray))
         ELSE Done(Append(heap, <<>>), Returned(Len(heap) + 1))
    ELSE LET items == Spread(elements)
         IN  IF ~items.ok THEN Done(heap, items)
             ELSE Done(Append(heap,
                           IF parentConfigArray # NoArray
                           THEN heap[parentConfigArray] \o items.value
                           ELSE items.value),
                       Returned(Len(heap) + 1))

\* `elements` is a generator or null, `parentConfigArray` an array or null.
create(heap, elements, parentConfigArray) ==
    IF elements = Null
    THEN IF parentConfigArray # NoArray
         THEN Done(heap, Returned(parentConfigArray))
         ELSE Done(Append(heap, <<>>), Returned(Len(heap) + 1))
    ELSE LET items == Spread(elements)
         IN  IF ~items.ok THEN Done(heap, items)
             ELSE LET configArray == Len(heap) + 1
                      created == Append(heap, items.value)
                  IN  IF /\ parentConfigArray # NoArray
                         /\ ~isRoot(created[configArray])
                      THEN Done([created EXCEPT ![configArray] =
                                     created[parentConfigArray] \o @],
                                Returned(configArray))
                      ELSE Done(created, Returned(configArray))

\* ConfigArrayFactory#create; `configData` is a config object or null.
factoryCreate(heap, fs, configData, filePath, name, parent) ==
    create(heap,
           IF configData # Null
           THEN _normalizeConfigData(fs, configData, filePath, name)
           ELSE Null,
           parent)

loadFile(heap, fs, filePath, name, parent) ==
    create(heap, _loadConfigData(fs, filePath, name), parent)

loadOnDirectory(heap, fs, directoryPath, name, parent) ==
    Bind(_loadConfigDataOnDirectory(fs, directoryPath, name),
         LAMBDA elements :
    IF ~elements.ok THEN Done(heap, elements)
    ELSE create(heap, elements.value, parent))

\* A variant of the loop below that walks on past a root config.
RECURSIVE ancestorsLoopThroughRoot(_, _, _)
ancestorsLoopThroughRoot(fs, currentPath, configArray) ==
    Bind(_loadConfigDataOnDirectory(fs, currentPath, <<>>),
         LAMBDA directoryConfig :
    IF ~directoryConfig.ok
    THEN IF ErrorCode(directoryConfig.error) \in {"EACCES", "EPERM"}
         THEN Returned(configArray)
         ELSE directoryConfig
    ELSE Bind(IF directoryConfig.value = Null THEN Returned(<<>>)
              ELSE Spread(directoryConfig.value), LAMBDA array :
         IF ~array.ok THEN array
         ELSE IF dirname(currentPath) # currentPath
         THEN ancestorsLoopThroughRoot(fs, dirname(currentPath),
                                       array.value \o configArray)
         ELSE Returned(array.value \o configArray)))

\* A variant of the loop below that lets a permission error out.
RECURSIVE ancestorsLoopRaising(_, _, _)
ancestorsLoopRaising(fs, currentPath, configArray) ==
    Bind(_loadConfigDataOnDirectory(fs, currentPath, <<>>),
         LAMBDA directoryConfig :
    IF ~directoryConfig.ok THEN directoryConfig
    ELSE Bind(IF directoryConfig.value = Null THEN Returned(<<>>)
              ELSE Spread(directoryConfig.value), LAMBDA array :
         IF ~array.ok THEN array
         ELSE IF directoryConfig.value # Null /\ isRoot(array.value)
         THEN Returned(array.value \o configArray)
         ELSE IF dirname(currentPath) # currentPath
         THEN ancestorsLoopRaising(fs, dirname(currentPath),
                                   array.value \o configArray)
         ELSE Returned(array.value \o configArray)))

\* The do-while loop of loadInAncestors from `currentPath` upwards;
\* `configArray` holds the items collected so far.
RECURSIVE ancestorsLoop(_, _, _)
ancestorsLoop(fs, currentPath, configArray) ==
    Bind(_loadConfigDataOnDirectory(fs, currentPath, <<>>),
         LAMBDA directoryConfig :
    IF ~directoryConfig.ok
    THEN IF ErrorCode(directoryConfig.error) \in {"EACCES", "EPERM"}
         THEN Returned(configArray)
         ELSE directoryConfig
    ELSE Bind(IF directoryConfig.value = Null THEN Returned(<<>>)
              ELSE Spread(directoryConfig.value), LAMBDA array :
         IF ~array.ok THEN array
         ELSE IF directoryConfig.value # Null /\ isRoot(array.value)
         THEN Returned(array.value \o configArray)
         ELSE IF dirname(currentPath) # currentPath
         THEN ancestorsLoop(fs, dirname(currentPath),
                            array.value \o configArray)
         ELSE Returned(array.value \o configArray)))

\* The personal config is loaded when the walk collected nothing.
loadInAncestors(heap, fs, directoryPath, parent, usePersonalEslintrc) ==
    Bind(ancestorsLoop(fs, dirname(directoryPath),
                       IF parent # NoArray THEN heap[parent] ELSE <<>>),
         LAMBDA regular :
    IF ~regular.ok THEN Done(heap, regular)
    ELSE IF Len(regular.value) = 0 /\ usePersonalEslintrc
    THEN Bind(_loadConfigDataOnDirectory(fs, HomeDir, <<>>),
              LAMBDA personalConfig :
         IF ~personalConfig.ok THEN Done(heap, personalConfig)
         ELSE IF personalConfig.value = Null
         THEN Done(Append(heap, regular.value), Returned(Len(heap) + 1))
         ELSE Bind(Spread(personalConfig.value), LAMBDA personal :
              IF ~personal.ok THEN Done(heap, personal)
              ELSE Done(Append(heap, personal.value \o regular.value),
                        Returned(Len(heap) + 1))))
    ELSE Done(Append(heap, regular.value), Returned(Len(heap) + 1)))

-----------------------------------------------------------------------------
(* file-enumerator.js.  The directories and the files to lint *)

\* readdir: directory -> the names of the directories and files to lint in it
Tree ==
    (<<"w">> :> <<"a", "f.js">>)
    @@ (<<"w", "a">> :> <<"b", "g.js", "x.ts">>)
    @@ (<<"w", "a", "b">> :> <<"c.js">>)

Cwd == <<"w">>

\* file name -> what stands before and after its last "."
NameParts ==
    [n \in {"f.js", "g.js", "x.ts", "c.js", "*.js", "*.ts"} \cup
           {configFilenames[i] : i \in 1..Len(configFilenames)} \cup
           {"custom.json"} |->
        IF n \in {"f.js", "g.js", "c.js", "*.js", ".eslintrc.js"}
        THEN [stem |-> IF n = "f.js" THEN "f" ELSE IF n = "g.js" THEN "g"
                       ELSE IF n = "c.js" THEN "c"
                       ELSE IF n = "*.js" THEN "*" ELSE ".eslintrc",
              ext |-> "js"]
        ELSE IF n \in {"x.ts", "*.ts"}
        THEN [stem |-> IF n = "x.ts" THEN "x" ELSE "*", ext |-> "ts"]
        ELSE IF n \in {".eslintrc.json", "package.json", "custom.json"}
        THEN [stem |-> IF n = ".eslintrc.json" THEN ".eslintrc"
                       ELSE IF n = "package.json" THEN "package"
                       ELSE "custom",
              ext |-> "json"]
        ELSE IF n = ".eslintrc.yaml" THEN [stem |-> ".eslintrc", ext |-> "yaml"]
        ELSE IF n = ".eslintrc.yml" THEN [stem |-> ".eslintrc", ext |-> "yml"]
        ELSE [stem |-> ".eslintrc", ext |-> ""]]

isDirectory(path) == path \in DOMAIN Tree

\* fs.readdirSync: the config files the directory holds, then its entries
readdirSync(fs, directoryPath) ==
    SelectSeq(configFilenames,
              LAMBDA n : join(directoryPath, n) \in DOMAIN fs)
    \o Tree[directoryPath]

isFile(fs, path) ==
    /\ path # <<>>
    /\ dirname(path) \in DOMAIN Tree
    /\ ~isDirectory(path)
    /\ \E i \in 1..Len(readdirSync(fs, dirname(path))) :
          readdirSync(fs, dirname(path))[i] = basename(path)

\* path.relative(cwd, filePath) for a file below cwd, in the form in which
\* a predicate or a selector is applied to it
relative(cwd, filePath) ==
    [dir |-> SubSeq(filePath, Len(cwd) + 1, Len(filePath) - 1),
     stem |-> NameParts[basename(filePath)].stem,
     ext |-> NameParts[basename(filePath)].ext]

\* One segment of a glob against a file name
SegmentMatchesFile(segment, relPath) ==
    /\ segment # "**"
    /\ NameParts[segment].ext = relPath.ext
    /\ NameParts[segment].stem \in {"*", relPath.stem}

\* The segments of a glob against the directories and the name of a path
RECURSIVE GlobMatch(_, _, _)
GlobMatch(segments, dirs, relPath) ==
    IF segments = <<>> THEN FALSE
    ELSE IF Head(segments) = "**"
    THEN \/ GlobMatch(Tail(segments), dirs, relPath)
         \/ dirs # <<>> /\ GlobMatch(segments, Tail(dirs), relPath)
    ELSE IF Len(segments) = 1
    THEN dirs = <<>> /\ SegmentMatchesFile(Head(segments), relPath)
    ELSE /\ dirs # <<>>
         /\ Head(segments) = Head(dirs)
         /\ GlobMatch(Tail(segments), Tail(dirs), relPath)

\* new Minimatch(pattern, { dot: true, matchBase: true }).match(relPath):
\* a pattern without a separator is matched against the base name
selectorMatch(pattern, relPath) ==
    IF Len(pattern) = 1 THEN SegmentMatchesFile(pattern[1], relPath)
    ELSE GlobMatch(pattern, relPath.dir, relPath)

IsMagic(segment) == segment \in {"**", "*.js", "*.ts"}

\* getGlobParent(pattern): the segments before the first one with a glob
\* character, or all but the last segment when there is none; <<>> is "."
RECURSIVE getGlobParent(_)
getGlobParent(pattern) ==
    IF Len(pattern) <= 1 \/ IsMagic(Head(pattern)) THEN <<>>
    ELSE <<Head(pattern)>> \o getGlobParent(Tail(pattern))

-----------------------------------------------------------------------------
(* file-enumerator.js: FileEnumerator.  `this` holds the fields the
   constructor set and the files (`fs`); the heap and the finalization cache
   (a function from arrays to arrays, keyed by identity) change as the
   methods run.  A method gives the heap and cache it leaves, the entries it
   yields and the error that ends it (Null when it returns). *)

Yielded(heap, cache, items, error) ==
    [heap |-> heap, cache |-> cache, items |-> items, error |-> error]

\* `ignoredPaths` is null or holds the set of the paths it contains.
IgnoredPaths(paths) == [t |-> "ignoredPaths", paths |-> paths]

_isIgnoredFile(this, filePath) ==
    /\ this.ignore # FALSE
    /\ this.ignoredPaths # Null
    /\ filePath \in this.ignoredPaths.paths

extRegExpTest(this, relPath) ==
    /\ relPath.ext \in this.extensions
    /\ relPath.stem # "" \/ relPath.dir # <<>>

_loadConfigInAncestors(heap, this, directoryPath) ==
    IF this.useEslintrc
    THEN loadInAncestors(heap, this.fs, directoryPath, this.baseConfigArray,
                         this.usePersonalEslintrc)
    ELSE Done(heap, Returned(this.baseConfigArray))

_loadConfigOnDirectory(heap, this, directoryPath, parentConfigArray) ==
    IF this.useEslintrc
    THEN loadOnDirectory(heap, this.fs, directoryPath, <<>>,
                         parentConfigArray)
    ELSE Done(heap, Returned(this.baseConfigArray))

\* The outcome is the finalized array or the error thrown.
_finalizeConfigArray(heap, cache, this, parentConfigArray) ==
    IF parentConfigArray \in DOMAIN cache
    THEN [heap |-> heap, cache |-> cache,
          outcome |-> Returned(cache[parentConfigArray])]
    ELSE
    Bind(IF this.specificConfigPath # <<>>
         THEN loadFile(heap, this.fs, this.specificConfigPath, <<>>,
                       parentConfigArray)
         ELSE Done(heap, Returned(parentConfigArray)),
         LAMBDA specificConfigArray :
    IF ~specificConfigArray.outcome.ok
    THEN [heap |-> specificConfigArray.heap, cache |-> cache,
          outcome |-> specificConfigArray.outcome]
    ELSE
    Bind(factoryCreate(specificConfigArray.heap, this.fs,
                       this.cliConfigData, join(this.cwd, ".clioptions"),
                       <<>>, specificConfigArray.outcome.value),
         LAMBDA finalConfigArray :
    IF ~finalConfigArray.outcome.ok
    THEN [heap |-> finalConfigArray.heap, cache |-> cache,
          outcome |-> finalConfigArray.outcome]
    ELSE [heap |-> finalConfigArray.heap,
          cache |-> (parentConfigArray :>
                         finalConfigArray.outcome.value) @@ cache,
          outcome |-> finalConfigArray.outcome]))

\* The flag is "Ignored", "Warning" or "" (null).
FileAndConfig(config, filePath, flag) ==
    [config |-> config, filePath |-> filePath, flag |-> flag]

_iterateFilesAtFile(heap, cache, this, filePath) ==
    Bind(_loadConfigInAncestors(heap, this, filePath), LAMBDA config :
    IF ~config.outcome.ok
    THEN Yielded(config.heap, cache, <<>>, config.outcome.error)
    ELSE
    Bind(_finalizeConfigArray(config.heap, cache, this,
                              config.outcome.value),
         LAMBDA final :
    IF ~final.outcome.ok
    THEN Yielded(final.heap, final.cache, <<>>, final.outcome.error)
    ELSE Yielded(final.heap, final.cache,
                 <<FileAndConfig(final.outcome.value, filePath,
                                 IF _isIgnoredFile(this, filePath)
                                 THEN "Warning" ELSE "")>>,
                 Null)))

\* What the loop of _iterateFilesRecursive yields for a file that matched
yieldFile(heap, cache, this, config, filePath) ==
    Bind(_finalizeConfigArray(heap, cache, this, config), LAMBDA final :
    IF ~final.outcome.ok
    THEN Yielded(final.heap, final.cache, <<>>, final.outcome.error)
    ELSE Yielded(final.heap, final.cache,
                 <<FileAndConfig(final.outcome.value, filePath,
                                 IF _isIgnoredFile(this, filePath)
                                 THEN "Ignored" ELSE "")>>,
                 Null))

\* A variant that, without a selector, looks at the extension only.
fileMatchedByExtension(heap, this, config, selector, filePath) ==
    IF selector # <<>>
    THEN selectorMatch(selector, relative(this.cwd, filePath))
    ELSE extRegExpTest(this, relative(this.cwd, filePath))

\* Whether the loop of _iterateFilesRecursive yields the file
fileMatched(heap, this, config, selector, filePath) ==
    IF selector # <<>>
    THEN selectorMatch(selector, relative(this.cwd, filePath))
    ELSE \/ extRegExpTest(this, relative(this.cwd, filePath))
         \/ arrayMatchFile(heap[config], relative(this.cwd, filePath))

RECURSIVE _iterateFilesRecursive(_, _, _, _, _, _, _)
RECURSIVE iterateDirectoryEntries(_, _, _, _, _, _, _, _)

\* The loop of _iterateFilesRecursive over the entries of the directory,
\* from the k-th on; `selector` is a glob or <<>> (null).
iterateDirectoryEntries(heap, cache, this, dir, config, selector, rec, k) ==
    IF k > Len(readdirSync(this.fs, dir))
    THEN Yielded(heap, cache, <<>>, Null)
    ELSE
    Bind(join(dir, readdirSync(this.fs, dir)[k]), LAMBDA filePath :
    Bind(IF ~isDirectory(filePath)
         THEN IF fileMatched(heap, this, config, selector, filePath)
              THEN yieldFile(heap, cache, this, config, filePath)
              ELSE Yielded(heap, cache, <<>>, Null)
         ELSE IF rec /\ ~_isIgnoredFile(this, filePath)
         THEN _iterateFilesRecursive(heap, cache, this, filePath, config,
                                     selector, rec)
         ELSE Yielded(heap, cache, <<>>, Null),
         LAMBDA here :
    IF here.error # Null THEN here
    ELSE
    Bind(iterateDirectoryEntries(here.heap, here.cache, this, dir, config,
                                 selector, rec, k + 1),
         LAMBDA rest :
    Yielded(rest.heap, rest.cache, here.items \o rest.items, rest.error))))

_iterateFilesRecursive(heap, cache, this, dir, parent, selector, rec) ==
    Bind(_loadConfigOnDirectory(heap, this, dir, parent), LAMBDA config :
    IF ~config.outcome.ok
    THEN Yielded(config.heap, cache, <<>>, config.outcome.error)
    ELSE IF ~isDirectory(dir)
    THEN Yielded(config.heap, cache, <<>>, SystemError("ENOENT", dir))
    ELSE iterateDirectoryEntries(config.heap, cache, this, dir,
                                 config.outcome.value, selector, rec, 1))

_iterateFilesInDirectory(heap, cache, this, directoryPath) ==
    Bind(_loadConfigInAncestors(heap, this, directoryPath), LAMBDA config :
    IF ~config.outcome.ok
    THEN Yielded(config.heap, cache, <<>>, config.outcome.error)
    ELSE _iterateFilesRecursive(config.heap, cache, this, directoryPath,
                                config.outcome.value, <<>>, TRUE))

\* Whether the glob part of a pattern makes the walk recursive
globRecursive(globParent, globPart) ==
    /\ globParent # <<>>
    /\ \/ Len(globPart) >= 2
       \/ \E i \in 1..Len(globPart) : globPart[i] = "**"

\* A pattern is the sequence of its segments.
_iterateFilesWithGlob(heap, cache, this, pattern) ==
    Bind(getGlobParent(pattern), LAMBDA globParent :
    Bind(_loadConfigInAncestors(heap, this, this.cwd \o globParent),
         LAMBDA config :
    IF ~config.outcome.ok
    THEN Yielded(config.heap, cache, <<>>, config.outcome.error)
    ELSE _iterateFilesRecursive(
             config.heap, cache, this, this.cwd \o globParent,
             config.outcome.value, pattern,
             globRecursive(globParent,
                           SubSeq(pattern, Len(globParent) + 1,
                                  Len(pattern))))))

_iterateFilesForAPattern(heap, cache, this, pattern) ==
    IF isDirectory(this.cwd \o pattern)
    THEN _iterateFilesInDirectory(heap, cache, this, this.cwd \o pattern)
    ELSE IF isFile(this.fs, this.cwd \o pattern)
    THEN _iterateFilesAtFile(heap, cache, this, this.cwd \o pattern)
    ELSE _iterateFilesWithGlob(heap, cache, this, pattern)

\* The entries whose path is not in `set`, each path once
RECURSIVE newEntries(_, _)
newEntries(items, set) ==
    IF items = <<>> THEN <<>>
    ELSE IF Head(items).filePath \in set THEN newEntries(Tail(items), set)
    ELSE <<Head(items)>>
         \o newEntries(Tail(items), set \cup {Head(items).filePath})

RECURSIVE iterateFilesFrom(_, _, _, _, _, _)
iterateFilesFrom(heap, cache, this, patterns, i, set) ==
    IF i > Len(patterns) THEN Yielded(heap, cache, <<>>, Null)
    ELSE
    Bind(_iterateFilesForAPattern(heap, cache, this, patterns[i]),
         LAMBDA found :
    Bind(newEntries(found.items, set), LAMBDA yielded :
    IF found.error # Null
    THEN Yielded(found.heap, found.cache, yielded, found.error)
    ELSE
    Bind(iterateFilesFrom(found.heap, found.cache, this, patterns, i + 1,
                          set \cup {yielded[k].filePath :
                                    k \in 1..Len(yielded)}),
         LAMBDA rest :
    Yielded(rest.heap, rest.cache, yielded \o rest.items, rest.error))))

\* FileEnumerator#iterateFiles, run to its end
iterateFiles(heap, cache, this, patterns) ==
    iterateFilesFrom(heap, cache, this, patterns, 1, {})

(* The directories whose config files a call loads: the sequence of the
   arguments of _loadConfigDataOnDirectory, in the order of the calls, for
   a call that raises nothing. *)

\* The do-while loop of loadInAncestors from `currentPath` upwards
RECURSIVE ancestorsVisited(_, _)
ancestorsVisited(fs, currentPath) ==
    Bind(_loadConfigDataOnDirectory(fs, currentPath, <<>>),
         LAMBDA directoryConfig :
    IF ~directoryConfig.ok THEN <<currentPath>>
    ELSE IF /\ directoryConfig.value # Null
            /\ Spread(directoryConfig.value).ok
            /\ isRoot(Spread(directoryConfig.value).value)
    THEN <<currentPath>>
    ELSE IF dirname(currentPath) # currentPath
    THEN <<currentPath>> \o ancestorsVisited(fs, dirname(currentPath))
    ELSE <<currentPath>>)

\* _loadConfigInAncestors; the home directory is loaded when the parent and
\* the walk gave no element
inAncestorsVisited(heap, this, directoryPath) ==
    IF ~this.useEslintrc THEN <<>>
    ELSE ancestorsVisited(this.fs, dirname(directoryPath))
         \o Bind(ancestorsLoop(this.fs, dirname(directoryPath),
                               heap[this.baseConfigArray]),
                 LAMBDA regular :
             IF /\ regular.ok
                /\ Len(regular.value) = 0
                /\ this.usePersonalEslintrc
             THEN <<HomeDir>> ELSE <<>>)

\* _iterateFilesRecursive: the directory, then the directories below it
\* that the loop dives into
RECURSIVE recursiveVisited(_, _, _, _)
recursiveVisited(this, dir, rec, k) ==
    IF k = 0
    THEN (IF this.useEslintrc THEN <<dir>> ELSE <<>>)
         \o recursiveVisited(this, dir, rec, 1)
    ELSE IF k > Len(readdirSync(this.fs, dir)) THEN <<>>
    ELSE (IF /\ isDirectory(join(dir, readdirSync(this.fs, dir)[k]))
             /\ rec
             /\ ~_isIgnoredFile(this,
                                join(dir, readdirSync(this.fs, dir)[k]))
          THEN recursiveVisited(this,
                                join(dir, readdirSync(this.fs, dir)[k]),
                                rec, 0)
          ELSE <<>>)
         \o recursiveVisited(this, dir, rec, k + 1)

\* _iterateFilesForAPattern
patternVisited(heap, this, pattern) ==
    IF isDirectory(this.cwd \o pattern)
    THEN inAncestorsVisited(heap, this, this.cwd \o pattern)
         \o recursiveVisited(this, this.cwd \o pattern, TRUE, 0)
    ELSE IF isFile(this.fs, this.cwd \o pattern)
    THEN inAncestorsVisited(heap, this, this.cwd \o pattern)
    ELSE inAncestorsVisited(heap, this, this.cwd \o getGlobParent(pattern))
         \o recursiveVisited(
                this, this.cwd \o getGlobParent(pattern),
                globRecursive(getGlobParent(pattern),
                              SubSeq(pattern, Len(getGlobParent(pattern)) + 1,
                                     Len(pattern))),
                0)

\* iterateFiles, iterated to its end
RECURSIVE iterateFilesVisited(_, _, _)
iterateFilesVisited(heap, this, patterns) ==
    IF patterns = <<>> THEN <<>>
    ELSE patternVisited(heap, this, Head(patterns))
         \o iterateFilesVisited(heap, this, Tail(patterns))

(* file-enumerator.js holds a second FileEnumerator (lines 530-871).  Its
   iterateFilesAtFile, iterateFilesInDirectory and
   iterateFilesInDirectoryRecursive are the statements of the methods above
   and are modelled by them; it calls the factory's methods on the class,
   which are modelled by the operations of the factory above. *)

\* `recursive` in the second iterateFilesWithGlob
globRecursiveSecond(globParent, globPart) ==
    \/ globParent = <<>>
    \/ Len(globPart) >= 2
    \/ \E i \in 1..Len(globPart) : globPart[i] = "**"

iterateFilesWithGlob(heap, cache, this, pattern) ==
    Bind(getGlobParent(pattern), LAMBDA globParent :
    Bind(_loadConfigInAncestors(heap, this, this.cwd \o globParent),
         LAMBDA config :
    IF ~config.outcome.ok
    THEN Yielded(config.heap, cache, <<>>, config.outcome.error)
    ELSE _iterateFilesRecursive(
             config.heap, cache, this, this.cwd \o globParent,
             config.outcome.value, pattern,
             globRecursiveSecond(globParent,
                                 SubSeq(pattern, Len(globParent) + 1,
                                        Len(pattern))))))

\* The loop of the second iterateFiles, from the i-th pattern on
RECURSIVE iterateFilesSecondFrom(_, _, _, _, _)
iterateFilesSecondFrom(heap, cache, this, patterns, i) ==
    IF i > Len(patterns) THEN Yielded(heap, cache, <<>>, Null)
    ELSE
    Bind(IF isDirectory(this.cwd \o patterns[i])
         THEN _iterateFilesInDirectory(heap, cache, this,
                                       this.cwd \o patterns[i])
         ELSE IF isFile(this.fs, this.cwd \o patterns[i])
         THEN _iterateFilesAtFile(heap, cache, this, this.cwd \o patterns[i])
         ELSE iterateFilesWithGlob(heap, cache, this, patterns[i]),
         LAMBDA found :
    IF found.error # Null THEN found
    ELSE
    Bind(iterateFilesSecondFrom(found.heap, found.cache, this, patterns,
                                i + 1),
         LAMBDA rest :
    Yielded(rest.heap, rest.cache, found.items \o rest.items, rest.error)))

\* The second FileEnumerator#iterateFiles, run to its end
iterateFilesSecond(heap, cache, this, patterns) ==
    iterateFilesSecondFrom(heap, cache, this, patterns, 1)

\* FileEnumerator#getConfigArrayForFile
getConfigArrayForFile(heap, cache, this, filePath) ==
    Bind(_loadConfigInAncestors(heap, this, filePath), LAMBDA config :
    IF ~config.outcome.ok
    THEN [heap |-> config.heap, cache |-> cache,
          outcome |-> config.outcome]
    ELSE _finalizeConfigArray(config.heap, cache, this,
                              config.outcome.value))

\* The fields the constructor of FileEnumerator sets from its options;
\* the heap then holds the base config array alone.
FileEnumerator(options) ==
    [baseConfigArray |-> 1,
     cliConfigData |-> options.cliConfig,
     cwd |-> options.cwd,
     extensions |-> options.extensions,
     ignore |-> options.ignore,
     ignoredPaths |-> options.ignoredPaths,
     specificConfigPath |-> options.specificConfigPath,
     useEslintrc |-> options.useEslintrc,
     usePersonalEslintrc |-> options.specificConfigPath = <<>>,
     fs |-> options.fs]

\* The heap the constructor leaves: the outcome of creating the base array
constructorHeap(options) ==
    factoryCreate(<<>>, options.fs, options.baseConfig,
                  join(options.cwd, ".baseconfig"), <<>>, NoArray).heap

-----------------------------------------------------------------------------
(* cli-engine.js: executeOnFiles.  The linter and the cache of lint results
   are other modules: the linter gives each file its messages, and the
   cache maps a file to the result stored for it and to the config that
   result was made with. *)

Message(severity, fixable) ==
    [fatal |-> FALSE, severity |-> severity, fix |-> fixable]

\* The messages that linting a file gives before a fix; `filePath` is
\* relative to the working directory
LintMessages(filePath) ==
    IF filePath.stem = "g" THEN <<Message(2, TRUE), Message(1, FALSE)>>
    ELSE IF filePath.stem = "c" THEN <<Message(1, TRUE)>>
    ELSE <<>>

\* Linter#verifyAndFix: with `fix` the fixable messages are fixed
verifyAndFix(filePath, fix) ==
    LET Unfixable(message) == ~message.fix
        messages == IF fix THEN SelectSeq(LintMessages(filePath), Unfixable)
                    ELSE LintMessages(filePath)
    IN  [fixed |-> Len(messages) < Len(LintMessages(filePath)),
         messages |-> messages]

calculateStatsPerFile(messages) ==
    LET Count(Test(_)) ==
            Cardinality({i \in 1..Len(messages) : Test(messages[i])})
        IsError(message) == message.fatal \/ message.severity = 2
    IN  [errorCount |-> Count(IsError),
         warningCount |-> Count(LAMBDA message : ~IsError(message)),
         fixableErrorCount |->
             Count(LAMBDA message : IsError(message) /\ message.fix),
         fixableWarningCount |->
             Count(LAMBDA message : ~IsError(message) /\ message.fix)]

\* A lint result; `output` tells whether the result has an output.
LintResult(filePath, messages, stats, output) ==
    [filePath |-> filePath, messages |-> messages,
     errorCount |-> stats.errorCount, warningCount |-> stats.warningCount,
     fixableErrorCount |-> stats.fixableErrorCount,
     fixableWarningCount |-> stats.fixableWarningCount, output |-> output]

verifyText(filePath, fix) ==
    Bind(verifyAndFix(filePath, fix), LAMBDA verified :
    LintResult(filePath, verified.messages,
               calculateStatsPerFile(verified.messages), verified.fixed))

createIgnoreResult(filePath) ==
    LintResult(filePath, <<Message(1, FALSE)>>,
               [errorCount |-> 0, warningCount |-> 1,
                fixableErrorCount |-> 0, fixableWarningCount |-> 0], FALSE)

\* results.reduce of calculateStatsPerRun, from the i-th result; reading a
\* property of null throws.
RECURSIVE calculateStatsFrom(_, _, _)
calculateStatsFrom(results, i, stat) ==
    IF i > Len(results) THEN Returned(stat)
    ELSE IF results[i] = Null
    THEN Thrown(TypeError("Cannot read property 'errorCount' of null"))
    ELSE calculateStatsFrom(results, i + 1,
             [errorCount |-> stat.errorCount + results[i].errorCount,
              warningCount |-> stat.warningCount + results[i].warningCount,
              fixableErrorCount |->
                  stat.fixableErrorCount + results[i].fixableErrorCount,
              fixableWarningCount |->
                  stat.fixableWarningCount + results[i].fixableWarningCount])

calculateStatsPerRun(results) ==
    calculateStatsFrom(results, 1,
        [errorCount |-> 0, warningCount |-> 0, fixableErrorCount |-> 0,
         fixableWarningCount |-> 0])

\* entries: file -> the config it was linted with and the result
LintResultCache(entries) == [t |-> "lintResultCache", entries |-> entries]

\* The result stored for the file with this config, or null
getCachedLintResults(lintResultCache, heap, filePath, config) ==
    IF /\ filePath \in DOMAIN lintResultCache.entries
       /\ lintResultCache.entries[filePath].hashOfConfig = heap[config]
    THEN lintResultCache.entries[filePath].results
    ELSE Null

setCachedLintResults(lintResultCache, heap, filePath, config, result) ==
    LintResultCache(
        [path \in DOMAIN lintResultCache.entries \cup {filePath} |->
            IF path = filePath
            THEN [hashOfConfig |-> heap[config], results |-> result]
            ELSE lintResultCache.entries[path]])

\* new CLIEngine(options): `lintResultCache` is null without options.cache
CLIEngine(cwd, fix, lintResultCache) ==
    [cwd |-> cwd, fix |-> fix, lintResultCache |-> lintResultCache]

\* The loop of executeOnFiles over the enumerated files, from the i-th
RECURSIVE executeOnFilesFrom(_, _, _, _, _, _)
executeOnFilesFrom(heap, this, items, i, results, lintResultCache) ==
    IF i > Len(items)
    THEN [results |-> results, lintResultCache |-> lintResultCache]
    ELSE Bind(items[i], LAMBDA item :
         Bind(IF lintResultCache # Null
              THEN getCachedLintResults(lintResultCache, heap, item.filePath,
                                        item.config)
              ELSE Null, LAMBDA cached :
         IF item.flag = "Ignored"
         THEN executeOnFilesFrom(heap, this, items, i + 1, results,
                                 lintResultCache)
         ELSE IF item.flag = "Warning"
         THEN executeOnFilesFrom(heap, this, items, i + 1,
                  Append(results, createIgnoreResult(item.filePath)),
                  lintResultCache)
         ELSE IF /\ lintResultCache # Null
                 /\ ~(/\ cached # Null
                      /\ Len(cached.messages) > 0
                      /\ this.fix)
         THEN executeOnFilesFrom(heap, this, items, i + 1,
                  Append(results, cached), lintResultCache)
         ELSE Bind(verifyText(relative(this.cwd, item.filePath), this.fix),
                   LAMBDA result :
              executeOnFilesFrom(heap, this, items, i + 1,
                  Append(results, result),
                  IF lintResultCache # Null
                  THEN setCachedLintResults(lintResultCache, heap,
                                            item.filePath, item.config, result)
                  ELSE lintResultCache))))

\* The files are linted as the enumerator yields them, so an error of the
\* enumerator comes after the results of the files before it are stored.
executeOnFiles(heap, cache, enumerator, this, patterns) ==
    Bind(iterateFiles(heap, cache, enumerator, patterns), LAMBDA done :
    Bind(executeOnFilesFrom(done.heap, this, done.items, 1, <<>>,
                            this.lintResultCache), LAMBDA looped :
    [heap |-> done.heap, cache |-> done.cache, items |-> done.items,
     engine |-> [this EXCEPT !.lintResultCache = looped.lintResultCache],
     outcome |->
         IF done.error # Null THEN Thrown(done.error)
         ELSE Bind(calculateStatsPerRun(looped.results), LAMBDA stats :
              IF ~stats.ok THEN stats
              ELSE Returned([results |-> looped.results,
                             stats |-> stats.value]))]))

-----------------------------------------------------------------------------
(* Inputs of the extraction specification *)

\* the pattern "*.<ext>"
Glob(ext) == [t |-> "glob", ext |-> ext]

RelPath(dir, stem, ext) == [dir |-> dir, stem |-> stem, ext |-> ext]

XTs == RelPath(<<>>, "x", "ts")

XJs == RelPath(<<>>, "x", "js")

TargetPaths == {XTs, XJs}

MatchTs == defineMatch(List(<<Glob("ts")>>), Undef)

\* files: ["*.js", "*.ts"], excludedFiles: "*.ts"
MatchJsNotTs == defineMatch(List(<<Glob("js"), Glob("ts")>>), Glob("ts"))

LoadError(what) == [kind |-> "LoadError", of |-> what]

Loaded(id, def, filePath, importerPath) ==
    [definition |-> def, filePath |-> filePath, id |-> id,
     importerPath |-> importerPath]

Failed(id, importerPath) ==
    [error |-> LoadError(<<id, importerPath>>), id |-> id,
     importerPath |-> importerPath]

PluginDef(name, processors) == [name |-> name, processors |-> processors]

ParserDef(name) == [name |-> name]

\* top-level rules {r: ["error", "a"]}
ETop ==
    ConfigArrayElement(
        [NoBody EXCEPT !.rules = Obj(Keys1("r", List(<<"error", "a">>)))],
        ".eslintrc.json", "/w/.eslintrc.json", Undef)

\* an override {files: ["*.ts"], rules: {r: ["error", "b"]}}
EOverride ==
    ConfigArrayElement(
        [NoBody EXCEPT !.rules = Obj(Keys1("r", List(<<"error", "b">>)))],
        ".eslintrc.json#overrides[0]", "/w/.eslintrc.json", MatchTs)

\* rules {r: "error"}: a bare severity; a setting that is a primitive
EBare ==
    ConfigArrayElement(
        [NoBody EXCEPT
            !.rules = Obj(Keys1("r", Prim("error"))),
            !.settings = Obj(Keys1("n", Prim("5")))],
        "bare", "/w/a/.eslintrc.json", Undef)

\* a one-element rule array, an array setting, env
EWarn ==
    ConfigArrayElement(
        [NoBody EXCEPT
            !.rules = Obj(Keys2("r", List(<<"warn">>), "q", Prim("off"))),
            !.settings = Obj(Keys1("l", Arr(Keys1("0", Prim("1"))))),
            !.env = Obj(Keys1("browser", Prim("true")))],
        "warn", "/w/a/.eslintrc.json", MatchJsNotTs)

ESet1 ==
    ConfigArrayElement(
        [NoBody EXCEPT
            !.settings = Obj(Keys3("a", Prim("1"),
                                   "n", Obj(Keys1("x", Prim("1"))),
                                   "l", Arr(Keys2("0", Prim("2"),
                                                  "1", Prim("3"))))),
            !.parserOptions =
                Obj(Keys1("ecmaFeatures", Obj(Keys1("jsx", Prim("true"))))),
            !.env = Obj(Keys2("browser", Prim("false"), "node", Prim("true"))),
            !.parser = Loaded("P1", ParserDef("P1"), "/w/node_modules/P1",
                              "/w/.eslintrc.json")],
        "set1", "/w/.eslintrc.json", Undef)

ESet2 ==
    ConfigArrayElement(
        [NoBody EXCEPT
            !.settings = Obj(Keys3("a", Prim("2"),
                                   "n", Obj(Keys2("x", Prim("9"),
                                                  "y", Obj(NoKeys))),
                                   "l", Obj(Keys1("k", Null)))),
            !.parserOptions =
                Obj(Keys1("ecmaFeatures", Obj(Keys2("jsx", Prim("false"),
                                                    "g", Prim("true"))))),
            !.globals = Obj(Keys1("window", Prim("readonly"))),
            !.parser = Loaded("P2", ParserDef("P2"), "/w/node_modules/P2",
                              "/w/b/.eslintrc.json")],
        "set2", "/w/b/.eslintrc.json", MatchTs)

EParserError ==
    ConfigArrayElement(
        [NoBody EXCEPT !.parser = Failed("P3", "/w/.eslintrc.json")],
        "perr", "/w/.eslintrc.json", Undef)

EParserErrorTs ==
    ConfigArrayElement(
        [NoBody EXCEPT !.parser = Failed("P4", "/w/b/.eslintrc.json")],
        "perrts", "/w/b/.eslintrc.json", MatchTs)

D1 == PluginDef("d1", {<<".md">>})

D2 == PluginDef("d2", {})

\* plugin p resolved from /w/.eslintrc.json, and a processor of it
EPluginA ==
    ConfigArrayElement(
        [NoBody EXCEPT
            !.plugins = PluginMap(<<Loaded("p", D1, "/w/node_modules/p",
                                 "/w/.eslintrc.json")>>),
            !.processor = ProcessorString(<<"p", ".md">>)],
        "plA", "/w/.eslintrc.json", Undef)

\* the same module, imported by another config file
EPluginB ==
    ConfigArrayElement(
        [NoBody EXCEPT
            !.plugins = PluginMap(<<Loaded("p", D1, "/w/node_modules/p",
                                 "/w/b/.eslintrc.json")>>)],
        "plB", "/w/b/.eslintrc.json", Undef)

\* another module with the same plugin id
EPluginC ==
    ConfigArrayElement(
        [NoBody EXCEPT
            !.plugins = PluginMap(<<Loaded("p", D2, "/w/c/node_modules/p",
                                 "/w/c/.eslintrc.json")>>)],
        "plC", "/w/c/.eslintrc.json", MatchTs)

\* a definition from the additional plugin pool: filePath = importerPath
EPluginPool ==
    ConfigArrayElement(
        [NoBody EXCEPT
            !.plugins = PluginMap(<<Loaded("p", D2, "/w/.clioptions",
                                 "/w/.clioptions")>>)],
        "pool", "/w/.clioptions", Undef)

\* a plugin that failed to load
EPluginError ==
    ConfigArrayElement(
        [NoBody EXCEPT !.plugins = PluginMap(<<Failed("q", "/w/.eslintrc.json")>>)],
        "qerr", "/w/.eslintrc.json", Undef)

\* processor: "md", a name without "/"
EProcessorBare ==
    ConfigArrayElement(
        [NoBody EXCEPT !.processor = ProcessorString(<<"md">>)],
        "procbare", "/w/.eslintrc.json", Undef)

\* processor: "p/.vue", which no definition of plugin p has
EProcessorMissing ==
    ConfigArrayElement(
        [NoBody EXCEPT !.processor = ProcessorString(<<"p", ".vue">>)],
        "missing", "/w/b/.eslintrc.json", MatchTs)

\* processor: ""
EProcessorEmpty ==
    ConfigArrayElement(
        [NoBody EXCEPT !.processor = ProcessorString(<<"">>)],
        "empty", "/w/.eslintrc.json", Undef)

ExtractElements ==
    {ETop, EOverride, EBare, EWarn, ESet1, ESet2, EParserError,
     EParserErrorTs, EPluginA, EPluginB, EPluginC, EPluginPool, EPluginError,
     EProcessorBare, EProcessorMissing, EProcessorEmpty}

MaxEntries == 3

-----------------------------------------------------------------------------
(* State *)

VARIABLES
    entries,          \* the ConfigArray handed to extractConfig
    targetFilePath,   \* the relative path of the last extraction
    extracted,        \* the outcome of the first extraction
    repeated,         \* the outcome of a further extraction
    fs,               \* the files that exist and what they hold
    heap,             \* the ConfigArray objects created so far
    enumerator,       \* the fields of the FileEnumerator
    cache,            \* the finalization cache of the FileEnumerator
    engine,           \* the fields of the CLIEngine
    call              \* the last call of a factory, enumerator or engine method

vars ==
    <<entries, targetFilePath, extracted, repeated, fs, heap, enumerator,
      cache, engine, call>>

lookupVars == <<fs, heap, enumerator, cache, engine, call>>

extractVars == <<entries, targetFilePath, extracted, repeated>>

NoFiles == [path \in {} |-> FileEmpty]

NoCache == [array \in {} |-> NoArray]

NoCall == [op |-> "none"]

NotCalled == [ok |-> FALSE, error |-> [kind |-> "NotCalled"]]

NoRepeat == [op |-> "none"]

-----------------------------------------------------------------------------
(* The extraction specification: any array of elements, any target path *)

NoExtraction ==
    /\ entries = <<>>
    /\ targetFilePath = XJs
    /\ extracted = NotCalled
    /\ repeated = NoRepeat

ExtractInit ==
    /\ NoExtraction
    /\ fs = NoFiles
    /\ heap = <<>>
    /\ enumerator = Null
    /\ cache = NoCache
    /\ engine = Null
    /\ call = NoCall

\* Array#push on the ConfigArray
Push(e) ==
    /\ extracted = NotCalled
    /\ Len(entries) < MaxEntries
    /\ entries' = Append(entries, e)
    /\ UNCHANGED <<targetFilePath, extracted, repeated, lookupVars>>

\* ConfigArray#extractConfig(targetFilePath)
Extract(p) ==
    /\ extracted = NotCalled
    /\ targetFilePath' = p
    /\ extracted' = extractConfig(entries, p)
    /\ entries' = extractSources(entries, p)
    /\ UNCHANGED <<repeated, lookupVars>>

ExtractNext ==
    \/ \E e \in ExtractElements : Push(e)
    \/ \E p \in TargetPaths : Extract(p)

SpecExtract == ExtractInit /\ [][ExtractNext]_vars

-----------------------------------------------------------------------------
(* The repeated-extraction specification: after a first extraction, the
   same array is extracted from again, or the result is made the only
   element of a new array and extracted from. *)

MaxRepeated == 2

\* The extracted config used as an element: it has no name, filePath,
\* matchFile or root property.
Wrap(config) ==
    [name |-> Undef, filePath |-> Undef, matchFile |-> Undef, root |-> Undef,
     env |-> config.env, globals |-> config.globals,
     parser |-> config.parser, parserOptions |-> config.parserOptions,
     plugins |-> config.plugins, processor |-> config.processor,
     rules |-> config.rules, settings |-> config.settings]

RepeatPush(e) == Len(entries) < MaxRepeated /\ Push(e)

\* extractConfig(targetFilePath) once more on the same ConfigArray
ExtractAgain ==
    /\ extracted # NotCalled
    /\ repeated = NoRepeat
    /\ repeated' = [op |-> "again",
                    outcome |-> extractConfig(entries, targetFilePath)]
    /\ entries' = extractSources(entries, targetFilePath)
    /\ UNCHANGED <<targetFilePath, extracted, lookupVars>>

\* new ConfigArray(R).extractConfig(targetFilePath), R the first result
ExtractWrapped ==
    /\ extracted.ok
    /\ repeated = NoRepeat
    /\ repeated' = [op |-> "wrapped",
                    outcome |-> extractConfig(<<Wrap(extracted.value)>>,
                                              targetFilePath)]
    /\ UNCHANGED <<entries, targetFilePath, extracted, lookupVars>>

RepeatNext ==
    \/ \E e \in ExtractElements : RepeatPush(e)
    \/ \E p \in TargetPaths : Extract(p)
    \/ ExtractAgain
    \/ ExtractWrapped

SpecRepeat == ExtractInit /\ [][RepeatNext]_vars

-----------------------------------------------------------------------------
(* Config files and options of the factory and enumerator specifications *)

Rule(id, severity) == Obj(Keys1(id, Prim(severity)))

\* The directories that may hold a .eslintrc.json, and the rule each sets
ConfigDirs == {<<"w">>, <<"w", "a">>, <<"w", "a", "b">>}

RuleOfDir(dir) ==
    IF dir = <<"w">> THEN Rule("rw", "error")
    ELSE IF dir = <<"w", "a">> THEN Rule("r1", "error")
    ELSE Rule("r2", "warn")

\* What the .eslintrc.json of a directory holds, by kind
ConfigOfKind(dir, kind) ==
    LET plain == [EmptyConfigData EXCEPT !.rules = RuleOfDir(dir)]
    IN  IF kind = "plain" THEN plain
        ELSE IF kind = "root" THEN [plain EXCEPT !.root = Prim("true")]
        ELSE IF kind = "overrides"
        THEN [plain EXCEPT !.overrides =
                 List(<<[EmptyConfigData EXCEPT
                            !.files = Glob("ts"),
                            !.rules = Rule("rt", "warn")]>>)]
        ELSE IF kind = "pluginMissing"
        THEN [plain EXCEPT !.plugins = List(<<Prim("q")>>)]
        ELSE [plain EXCEPT !.plugins = List(<<Prim("p")>>)]

CustomConfigPath == <<"w", "custom.json">>

RootConfigPath == <<"w", "rootcfg.json">>

\* The files every layout has: the --config files and the personal config
FixedFiles ==
    (CustomConfigPath :>
        FileData([EmptyConfigData EXCEPT !.rules = Rule("rs", "warn")]))
    @@ (RootConfigPath :>
        FileData([EmptyConfigData EXCEPT !.root = Prim("true"),
                                         !.rules = Rule("rs", "warn")]))
    @@ (join(HomeDir, ".eslintrc.json") :>
        FileData([EmptyConfigData EXCEPT !.rules = Rule("rh", "warn")]))

\* kinds: directory -> "none" or the kind of its .eslintrc.json
Layout(kinds) ==
    [path \in {join(dir, ".eslintrc.json") :
                  dir \in {d \in ConfigDirs : kinds[d] # "none"}} |->
        FileData(ConfigOfKind(dirname(path), kinds[dirname(path)]))]
    @@ FixedFiles

Kinds(w, a, b) ==
    [dir \in ConfigDirs |->
        IF dir = <<"w">> THEN w ELSE IF dir = <<"w", "a">> THEN a ELSE b]

BaseConfigData == [EmptyConfigData EXCEPT !.rules = Rule("rb", "error")]

CliConfigData == [EmptyConfigData EXCEPT !.rules = Rule("rc", "off")]

-----------------------------------------------------------------------------
(* The factory specification: any sequence of calls of the factory's
   methods, on any arrays made so far *)

FactoryLayouts ==
    {Layout(Kinds(w, a, "none")) :
        w \in {"none", "plain"},
        a \in {"none", "plain", "root", "overrides", "pluginMissing"}}

CreateInputs ==
    {Null, CliConfigData,
     [CliConfigData EXCEPT !.root = Prim("true")],
     [CliConfigData EXCEPT !.plugins = List(<<Prim("q")>>)],
     [CliConfigData EXCEPT !.plugins = List(<<Prim("p")>>)],
     [CliConfigData EXCEPT !.plugins = List(<<>>),
                           !.parser = Prim("P1")]}

LoadFileInputs == {CustomConfigPath, RootConfigPath, <<"w", "missing.json">>}

MaxArrays == 2

Parents == 0..Len(heap)

FactoryInit ==
    /\ NoExtraction
    /\ fs \in FactoryLayouts
    /\ heap = <<>>
    /\ enumerator = Null
    /\ cache = NoCache
    /\ engine = Null
    /\ call = NoCall

\* The heap and `call` after a method returned `result`
Called(record, result) ==
    /\ Len(heap) < MaxArrays
    /\ \E done \in {result} :
          /\ heap' = done.heap
          /\ call' = [record EXCEPT !.before = heap,
                                     !.outcome = done.outcome]
    /\ UNCHANGED <<extractVars, engine, fs, enumerator, cache>>

FactoryCreate(configData, parent) ==
    Called([op |-> "create", configData |-> configData, parent |-> parent,
            before |-> <<>>, outcome |-> Null],
           factoryCreate(heap, fs, configData, join(Cwd, ".clioptions"),
                         <<>>, parent))

FactoryLoadFile(filePath, parent) ==
    Called([op |-> "loadFile", filePath |-> filePath, parent |-> parent,
            before |-> <<>>, outcome |-> Null],
           loadFile(heap, fs, filePath, <<>>, parent))

FactoryLoadOnDirectory(directoryPath, parent) ==
    Called([op |-> "loadOnDirectory", directoryPath |-> directoryPath,
            parent |-> parent, before |-> <<>>, outcome |-> Null],
           loadOnDirectory(heap, fs, directoryPath, <<>>, parent))

FactoryLoadInAncestors(directoryPath, parent, usePersonalEslintrc) ==
    Called([op |-> "loadInAncestors", directoryPath |-> directoryPath,
            parent |-> parent, usePersonalEslintrc |-> usePersonalEslintrc,
            before |-> <<>>, outcome |-> Null],
           loadInAncestors(heap, fs, directoryPath, parent,
                           usePersonalEslintrc))

FactoryNext ==
    \/ \E configData \in CreateInputs, parent \in Parents :
          FactoryCreate(configData, parent)
    \/ \E filePath \in LoadFileInputs, parent \in Parents :
          FactoryLoadFile(filePath, parent)
    \/ \E directoryPath \in ConfigDirs, parent \in Parents :
          FactoryLoadOnDirectory(directoryPath, parent)
    \/ \E directoryPath \in {<<"w", "a", "b", "c.js">>, <<"w", "a">>},
          parent \in Parents, usePersonalEslintrc \in BOOLEAN :
          FactoryLoadInAncestors(directoryPath, parent, usePersonalEslintrc)

SpecFactory == FactoryInit /\ [][FactoryNext]_vars

-----------------------------------------------------------------------------
(* The normalization specification: one call of create, with or without a
   parent array, on a config object that may have files, extends, overrides
   and plugins *)

\* The config files the `extends` entries name
NormalizeFiles == Layout(Kinds("none", "overrides", "none"))

ExtendsChoices ==
    {Undef,
     ExtendsRelative(<<"custom.json">>),
     ExtendsRelative(<<"rootcfg.json">>),
     List(<<ExtendsRelative(<<"custom.json">>),
            ExtendsRelative(<<"rootcfg.json">>)>>),
     ExtendsPlugin("p", "recommended"),
     ExtendsRelative(<<"a", ".eslintrc.json">>)}

\* {files: "*.ts", rules: {rt: "warn"}}
OverrideTs ==
    [EmptyConfigData EXCEPT !.files = Glob("ts"), !.rules = Rule("rt", "warn")]

\* {files: ["*.js", "*.ts"], rules: {rj: "warn"}}
OverrideJs ==
    [EmptyConfigData EXCEPT !.files = List(<<Glob("js"), Glob("ts")>>),
                            !.rules = Rule("rj", "warn")]

OverridesChoices ==
    {Undef,
     List(<<OverrideTs>>),
     List(<<OverrideJs, OverrideTs>>),
     List(<<[OverrideTs EXCEPT
                !.extends = ExtendsRelative(<<"rootcfg.json">>)]>>),
     List(<<[OverrideJs EXCEPT !.overrides = List(<<OverrideTs>>)]>>)}

NormalizeInputs ==
    {[CliConfigData EXCEPT !.root = root, !.files = files,
                           !.extends = extends, !.overrides = overrides,
                           !.plugins = plugins] :
        root \in {Undef, Prim("true")},
        files \in {Undef, Glob("js")},
        extends \in ExtendsChoices,
        overrides \in OverridesChoices,
        plugins \in {Undef, List(<<>>), List(<<Prim("p")>>)}}

\* The heap holds one array, made from the base config
NormalizeInit ==
    /\ NoExtraction
    /\ fs = NormalizeFiles
    /\ heap = factoryCreate(<<>>, NormalizeFiles, BaseConfigData,
                            join(Cwd, ".baseconfig"), <<>>, NoArray).heap
    /\ enumerator = Null
    /\ cache = NoCache
    /\ engine = Null
    /\ call = NoCall

\* ConfigArrayFactory#create(configData, {filePath, parent})
NormalizeCreate(configData, parent) ==
    /\ call = NoCall
    /\ \E done \in {factoryCreate(heap, fs, configData,
                                   join(Cwd, ".clioptions"), <<>>, parent)} :
          /\ heap' = done.heap
          /\ call' = [op |-> "create", configData |-> configData,
                      parent |-> parent, before |-> heap,
                      outcome |-> done.outcome]
    /\ UNCHANGED <<extractVars, engine, fs, enumerator, cache>>

\* [...normalizeConfigData(configData, {filePath})] of part_001; the outcome
\* holds the items themselves
NormalizeFunction(configData) ==
    /\ call = NoCall
    /\ call' = [op |-> "normalizeConfigData", configData |-> configData,
                parent |-> NoArray, before |-> heap,
                outcome |-> Spread(normalizeConfigData(
                                fs, configData, join(Cwd, ".clioptions"),
                                <<>>))]
    /\ UNCHANGED <<extractVars, engine, fs, heap, enumerator, cache>>

NormalizeNext ==
    \E configData \in NormalizeInputs :
        \/ \E parent \in {NoArray, 1} : NormalizeCreate(configData, parent)
        \/ NormalizeFunction(configData)

SpecNormalize == NormalizeInit /\ [][NormalizeNext]_vars

-----------------------------------------------------------------------------
(* The discovery specification: a directory that holds any of the candidate
   config files, each with a config, without one, or unreadable, and one
   call of loadOnDirectory on it *)

DiscoveryDir == <<"w", "a">>

\* The config that the k-th candidate file holds when it holds one
CandidateConfig(k) ==
    [EmptyConfigData EXCEPT
        !.rules = Rule(<<"rjs", "ryaml", "ryml", "rjson", "rlegacy",
                         "rpackage">>[k], "error")]

\* The k-th candidate as a file of the given kind
CandidateFile(k, kind) ==
    IF kind = "broken"
    THEN FileBroken(SyntaxError(join(DiscoveryDir, configFilenames[k])))
    ELSE IF configFilenames[k] = "package.json"
    THEN PackageJson(IF kind = "data" THEN CandidateConfig(k) ELSE Undef)
    ELSE IF kind = "data" THEN FileData(CandidateConfig(k))
    ELSE FileEmpty

\* kinds: candidate -> "absent", "data", "empty" or "broken"; an empty
\* .eslintrc.json is no JSON text, so that candidate is never "empty"
DiscoveryLayout(kinds) ==
    [path \in {join(DiscoveryDir, configFilenames[k]) :
                  k \in {j \in 1..Len(configFilenames) :
                            kinds[j] # "absent"}} |->
        CandidateFile(
            CHOOSE k \in 1..Len(configFilenames) :
                join(DiscoveryDir, configFilenames[k]) = path,
            kinds[CHOOSE k \in 1..Len(configFilenames) :
                      join(DiscoveryDir, configFilenames[k]) = path])]

DiscoveryLayouts ==
    {DiscoveryLayout(kinds) :
        kinds \in {f \in [1..Len(configFilenames) ->
                            {"absent", "data", "empty", "broken"}] :
                      f[4] # "empty"}}

\* The heap holds one array, made from the base config
DiscoveryInit ==
    /\ NoExtraction
    /\ fs \in DiscoveryLayouts
    /\ heap = factoryCreate(<<>>, NoFiles, BaseConfigData,
                            join(Cwd, ".baseconfig"), <<>>, NoArray).heap
    /\ enumerator = Null
    /\ cache = NoCache
    /\ engine = Null
    /\ call = NoCall

\* ConfigArrayFactory#loadOnDirectory(directoryPath, {parent})
DiscoveryLoad(parent) ==
    /\ call = NoCall
    /\ \E done \in {loadOnDirectory(heap, fs, DiscoveryDir, <<>>, parent)} :
          /\ heap' = done.heap
          /\ call' = [op |-> "loadOnDirectory",
                      directoryPath |-> DiscoveryDir, parent |-> parent,
                      before |-> heap, outcome |-> done.outcome]
    /\ UNCHANGED <<extractVars, engine, fs, enumerator, cache>>

DiscoveryNext == \E parent \in {NoArray, 1} : DiscoveryLoad(parent)

SpecDiscovery == DiscoveryInit /\ [][DiscoveryNext]_vars

-----------------------------------------------------------------------------
(* The ancestors specification: the directories above a file hold a config
   of any kind, none, or one that cannot be read; the home directory holds
   the personal config, none, or one that cannot be read; and one call of
   loadInAncestors *)

AncestorsPath == <<"w", "a", "b">>

AncestorsExtended == <<"custom.json">>

\* The files that a directory of the given kind holds
AncestorsFiles(dir, kind) ==
    LET plain == [EmptyConfigData EXCEPT !.rules = RuleOfDir(dir)]
        extending == [plain EXCEPT
                         !.extends = ExtendsRelative(AncestorsExtended)]
        eslintrc == join(dir, ".eslintrc.json")
        extended == dir \o AncestorsExtended
    IN  IF kind = "none" THEN NoFiles
        ELSE IF kind = "plain" THEN eslintrc :> FileData(plain)
        ELSE IF kind = "root"
        THEN eslintrc :> FileData([plain EXCEPT !.root = Prim("true")])
        ELSE IF kind = "package"
        THEN join(dir, "package.json") :> PackageJson(plain)
        ELSE IF kind \in {"EACCES", "EPERM"}
        THEN eslintrc :> FileBroken(SystemError(kind, eslintrc))
        ELSE IF kind = "broken"
        THEN eslintrc :> FileBroken(SyntaxError(eslintrc))
        ELSE IF kind = "extendsMissing" THEN eslintrc :> FileData(extending)
        ELSE (eslintrc :> FileData(extending))
             @@ (extended :> FileBroken(SystemError("EACCES", extended)))

AncestorsLayouts ==
    {AncestorsFiles(<<"w", "a">>, a) @@ AncestorsFiles(<<"w">>, w)
        @@ AncestorsFiles(HomeDir, home) :
        a \in {"none", "plain", "root", "package", "EACCES", "EPERM",
               "broken", "extendsMissing", "extendsDenied"},
        w \in {"none", "plain", "EACCES", "broken"},
        home \in {"none", "plain", "EACCES"}}

\* The heap holds one array, made from the base config
AncestorsInit ==
    /\ NoExtraction
    /\ fs \in AncestorsLayouts
    /\ heap = factoryCreate(<<>>, NoFiles, BaseConfigData,
                            join(Cwd, ".baseconfig"), <<>>, NoArray).heap
    /\ enumerator = Null
    /\ cache = NoCache
    /\ engine = Null
    /\ call = NoCall

\* ConfigArrayFactory#loadInAncestors(directoryPath,
\*                                    {parent, usePersonalEslintrc})
LoadInAncestors(parent, usePersonalEslintrc) ==
    /\ call = NoCall
    /\ \E done \in {loadInAncestors(heap, fs, AncestorsPath, parent,
                                    usePersonalEslintrc)} :
          /\ heap' = done.heap
          /\ call' = [op |-> "loadInAncestors",
                      directoryPath |-> AncestorsPath, parent |-> parent,
                      usePersonalEslintrc |-> usePersonalEslintrc,
                      before |-> heap, outcome |-> done.outcome]
    /\ UNCHANGED <<extractVars, engine, fs, enumerator, cache>>

AncestorsNext ==
    \E parent \in {NoArray, 1}, usePersonalEslintrc \in BOOLEAN :
        LoadInAncestors(parent, usePersonalEslintrc)

SpecAncestors == AncestorsInit /\ [][AncestorsNext]_vars

-----------------------------------------------------------------------------
(* The enumerator specification: a FileEnumerator constructed with any of
   the options, on any of the layouts, and one call of iterateFiles or of
   getConfigArrayForFile *)

EnumeratorLayouts ==
    {Layout(Kinds(w, a, b)) :
        w \in {"none", "plain", "root"},
        a \in {"none", "plain", "root", "overrides"},
        b \in {"none", "plain", "root"}}

Options(layout, baseConfig, commandLine, ignoredPaths, useEslintrc) ==
    [fs |-> layout, baseConfig |-> baseConfig,
     cliConfig |-> commandLine.cliConfig, cwd |-> Cwd,
     extensions |-> {"js"}, ignore |-> TRUE, ignoredPaths |-> ignoredPaths,
     specificConfigPath |-> commandLine.specificConfigPath,
     useEslintrc |-> useEslintrc]

\* --config and the options that make the CLI config
CommandLine(specificConfigPath, cliConfig) ==
    [specificConfigPath |-> specificConfigPath, cliConfig |-> cliConfig]

CommandLines ==
    {CommandLine(<<>>, Null), CommandLine(CustomConfigPath, CliConfigData),
     CommandLine(RootConfigPath, Null)}

\* Any layout with any base config and command line; any layout with
\* ignored paths; --no-eslintrc on a layout with config files
EnumeratorOptions ==
    {Options(layout, baseConfig, commandLine, Null, TRUE) :
        layout \in EnumeratorLayouts,
        baseConfig \in {Null, BaseConfigData},
        commandLine \in CommandLines}
    \cup
    {Options(layout, Null, CommandLine(<<>>, Null),
             IgnoredPaths({<<"w", "a", "g.js">>, <<"w", "a", "b">>}), TRUE) :
        layout \in EnumeratorLayouts}
    \cup
    {Options(Layout(Kinds("plain", "root", "none")), baseConfig, commandLine,
             Null, FALSE) :
        baseConfig \in {Null, BaseConfigData},
        commandLine \in CommandLines}

\* The patterns given to iterateFiles: a file, a directory, and globs
Patterns ==
    {<<"a", "b", "c.js">>, <<"a">>, <<"a", "**", "*.js">>, <<"a", "*.ts">>,
     <<"*.js">>}

MaxPatterns == 2

PatternLists == UNION {[1..n -> Patterns] : n \in 1..MaxPatterns}

TargetFiles ==
    {<<"w", "a", "b", "c.js">>, <<"w", "a", "x.ts">>, <<"w", "f.js">>}

Init ==
    /\ NoExtraction
    /\ \E options \in EnumeratorOptions :
          /\ fs = options.fs
          /\ heap = constructorHeap(options)
          /\ enumerator = FileEnumerator(options)
    /\ cache = NoCache
    /\ engine = Null
    /\ call = NoCall

\* FileEnumerator#getConfigArrayForFile(filePath); `items` pairs the array
\* it returned with the file
GetConfigArrayForFile(filePath) ==
    /\ call = NoCall
    /\ \E done \in {getConfigArrayForFile(heap, cache, enumerator, filePath)} :
           /\ heap' = done.heap
           /\ cache' = done.cache
           /\ call' =
                  [op |-> "getConfigArrayForFile", filePath |-> filePath,
                   before |-> heap,
                   items |-> IF done.outcome.ok
                             THEN <<FileAndConfig(done.outcome.value,
                                                  filePath, "")>>
                             ELSE <<>>,
                   error |-> IF done.outcome.ok THEN Null
                             ELSE done.outcome.error]
    /\ UNCHANGED <<extractVars, engine, fs, enumerator>>

\* FileEnumerator#iterateFiles(patterns), iterated to its end
IterateFiles(patterns) ==
    /\ call = NoCall
    /\ \E done \in {iterateFiles(heap, cache, enumerator, patterns)} :
           /\ heap' = done.heap
           /\ cache' = done.cache
           /\ call' = [op |-> "iterateFiles", patterns |-> patterns,
                       before |-> heap, items |-> done.items,
                       error |-> done.error]
    /\ UNCHANGED <<extractVars, engine, fs, enumerator>>

Next ==
    \/ \E filePath \in TargetFiles : GetConfigArrayForFile(filePath)
    \/ \E patterns \in PatternLists : IterateFiles(patterns)

Spec == Init /\ [][Next]_vars

-----------------------------------------------------------------------------
(* The overlap specification: an enumerator with or without ignored paths
   and one call of either iterateFiles on patterns that reach the same
   files *)

OverlapOptions ==
    {Options(Layout(Kinds(w, a, "none")), Null, CommandLine(<<>>, Null),
             ignoredPaths, TRUE) :
        w \in {"none", "plain"},
        a \in {"none", "overrides"},
        ignoredPaths \in {Null, IgnoredPaths({<<"w", "a", "g.js">>,
                                              <<"w", "a", "b">>})}}

\* A file, the directory that holds it, globs that reach it, another file
\* and the directory that holds that one
OverlapPatterns ==
    {<<"a", "g.js">>, <<"a">>, <<"a", "*.js">>, <<"a", "**", "*.js">>,
     <<"*.js">>, <<"a", "b", "c.js">>, <<"a", "b">>}

MaxOverlap == 2

OverlapLists == UNION {[1..n -> OverlapPatterns] : n \in 1..MaxOverlap}

OverlapInit ==
    /\ NoExtraction
    /\ \E options \in OverlapOptions :
          /\ fs = options.fs
          /\ heap = constructorHeap(options)
          /\ enumerator = FileEnumerator(options)
    /\ cache = NoCache
    /\ engine = Null
    /\ call = NoCall

\* iterateFiles(patterns) of the second FileEnumerator, iterated to its end
IterateFilesSecond(patterns) ==
    /\ call = NoCall
    /\ \E done \in {iterateFilesSecond(heap, cache, enumerator, patterns)} :
           /\ heap' = done.heap
           /\ cache' = done.cache
           /\ call' = [op |-> "iterateFiles", patterns |-> patterns,
                       before |-> heap, items |-> done.items,
                       error |-> done.error, second |-> TRUE]
    /\ UNCHANGED <<extractVars, engine, fs, enumerator>>

OverlapNext ==
    \/ \E patterns \in OverlapLists : IterateFiles(patterns)
    \/ \E patterns \in OverlapLists : IterateFilesSecond(patterns)

SpecOverlap == OverlapInit /\ [][OverlapNext]_vars

-----------------------------------------------------------------------------
(* The engine specification: a CLIEngine with or without the fix option and
   the cache of lint results, the cache holding results of an earlier run
   for some of the files, and one call of executeOnFiles *)

EngineOptions ==
    {Options(Layout(Kinds(w, "none", "none")), Null, CommandLine(<<>>, Null),
             ignoredPaths, TRUE) :
        w \in {"none", "plain"},
        ignoredPaths \in
            {Null, IgnoredPaths({<<"w", "a", "g.js">>, <<"w", "a", "b">>})}}

\* The elements of the config that the enumerator pairs with a file
ConfigElementsOf(options, filePath) ==
    Bind(getConfigArrayForFile(constructorHeap(options), NoCache,
                               FileEnumerator(options), filePath),
         LAMBDA done : done.heap[done.outcome.value])

\* The cache as a run without the fix option left it for these files
CacheOf(options, filePaths) ==
    LintResultCache(
        [filePath \in filePaths |->
            [hashOfConfig |-> ConfigElementsOf(options, filePath),
             results |-> verifyText(relative(options.cwd, filePath), FALSE)]])

EngineCaches(options) ==
    {Null}
    \cup {CacheOf(options, filePaths) :
             filePaths \in {{}, {<<"w", "f.js">>},
                            {<<"w", "f.js">>, <<"w", "a", "g.js">>,
                             <<"w", "a", "b", "c.js">>}}}

EnginePatterns ==
    {<<<<"f.js">>>>, <<<<"a">>>>, <<<<"a", "g.js">>>>, <<<<"*.js">>>>,
     <<<<"f.js">>, <<"a", "b">>>>}

EngineInit ==
    /\ NoExtraction
    /\ \E options \in EngineOptions :
          /\ fs = options.fs
          /\ heap = constructorHeap(options)
          /\ enumerator = FileEnumerator(options)
          /\ \E fix \in BOOLEAN :
                \E lintResultCache \in EngineCaches(options) :
                    engine = CLIEngine(options.cwd, fix,
                                       lintResultCache)
    /\ cache = NoCache
    /\ call = NoCall

\* CLIEngine#executeOnFiles(patterns)
ExecuteOnFiles(patterns) ==
    /\ call = NoCall
    /\ \E done \in {executeOnFiles(heap, cache, enumerator, engine,
                                   patterns)} :
          /\ heap' = done.heap
          /\ cache' = done.cache
          /\ engine' = done.engine
          /\ call' = [op |-> "executeOnFiles", patterns |-> patterns,
                      items |-> done.items, before |-> heap,
                      engine |-> engine, outcome |-> done.outcome]
    /\ UNCHANGED <<extractVars, fs, enumerator>>

EngineNext == \E patterns \in EnginePatterns : ExecuteOnFiles(patterns)

SpecEngine == EngineInit /\ [][EngineNext]_vars

-----------------------------------------------------------------------------
(* Properties of extraction *)

Extracted == extracted # NotCalled

\* The entry applies to the path: it has no predicate, or its predicate
\* accepts the path.
Applies(entry, p) ==
    entry.matchFile = Undef \/ CallMatchFile(entry.matchFile, p)

ApplyingEntries(p) == SelectSeq(entries, LAMBDA e : Applies(e, p))

Max(S) == CHOOSE i \in S : \A j \in S : j <= i

\* C5. Predicate filtering: extractConfig(A, p) equals extractConfig(A', p)
\* where A' is A without the elements whose predicate rejects p (elements
\* without a predicate stay).  With top-level rules {r: ["error", "a"]} and
\* an override {files: ["*.ts"], rules: {r: ["error", "b"]}}, x.ts gets
\* r = ["error", "b"] and x.js gets r = ["error", "a"].
C5_PredicateFiltering ==
    Extracted =>
        /\ extracted = extractConfig(ApplyingEntries(targetFilePath),
                                     targetFilePath)
        /\ entries = <<ETop, EOverride>> =>
              /\ extracted.ok
              /\ extracted.value.rules =
                    Obj(Keys1("r", List(<<"error",
                        IF targetFilePath = XTs THEN "b" ELSE "a">>)))

C5_Witness ==
    /\ Extracted
    /\ extracted.ok
    /\ Len(entries) = MaxEntries
    /\ \E i \in 1..Len(entries) : ~Applies(entries[i], targetFilePath)
    /\ \E i \in 1..Len(entries) :
          /\ entries[i].matchFile # Undef
          /\ Applies(entries[i], targetFilePath)

\* The matching elements that set a parser.
ParserSetters ==
    {i \in 1..Len(entries) :
        Applies(entries[i], targetFilePath) /\ entries[i].parser # Undef}

StoredParserErrors ==
    {entries[i].parser.error : i \in {j \in 1..Len(entries) :
        entries[j].parser # Undef /\ HasError(entries[j].parser)}}

ChosenParser == entries[Max(ParserSetters)].parser

\* The reverse walk gets to element i: no element above it throws.
WalkReaches(i) ==
    extractLoop(SubSeq(entries, i + 1, Len(entries)), targetFilePath,
                Len(entries) - i, ExtractedConfigData).ok

\* C6 as stated. Parser precedence: the extracted parser is the reference
\* of the last matching element that sets a parser, or null; a stored
\* parser load error is raised if and only if that chosen reference
\* carries one.
C6_Original ==
    Extracted =>
        /\ extracted.ok =>
              extracted.value.parser =
                  IF ParserSetters = {} THEN Null ELSE ChosenParser
        /\ (~extracted.ok /\ extracted.error \in StoredParserErrors)
              <=> (ParserSetters # {} /\ HasError(ChosenParser))

\* C6 as amended. The extracted parser is the reference of the last matching
\* element that sets a parser, or null; a stored parser load error is raised
\* if and only if that chosen reference carries one and no matching element
\* at a higher index makes the plugin merge throw first; the error raised is
\* the chosen reference's, never that of a non-matching or lower-precedence
\* element.
C6_ParserPrecedence ==
    Extracted =>
        /\ extracted.ok =>
              extracted.value.parser =
                  IF ParserSetters = {} THEN Null ELSE ChosenParser
        /\ (~extracted.ok /\ extracted.error \in StoredParserErrors)
              <=> /\ ParserSetters # {}
                  /\ HasError(ChosenParser)
                  /\ WalkReaches(Max(ParserSetters))
        /\ (~extracted.ok /\ extracted.error \in StoredParserErrors)
              => extracted.error = ChosenParser.error

C6_Witness ==
    /\ Extracted
    /\ extracted.ok
    /\ Cardinality(ParserSetters) >= 2
    /\ \E i \in ParserSetters : HasError(entries[i].parser)
    /\ \E i \in 1..Len(entries) :
          /\ ~Applies(entries[i], targetFilePath)
          /\ entries[i].parser # Undef
          /\ HasError(entries[i].parser)

RuleIds ==
    UNION {DOMAIN entries[i].rules.v : i \in {j \in 1..Len(entries) :
        entries[j].rules # Undef}}

\* The matching elements that set rule r.
RuleSetters(r) ==
    {i \in 1..Len(entries) :
        /\ Applies(entries[i], targetFilePath)
        /\ entries[i].rules # Undef
        /\ r \in DOMAIN entries[i].rules.v}

AsArray(def) == IF def.t = "list" THEN def.v ELSE <<def.v>>

\* The earlier matching elements that give r options.
OptionDonors(r) ==
    {i \in RuleSetters(r) :
        /\ i < Max(RuleSetters(r))
        /\ entries[i].rules.v[r].t = "list"
        /\ Len(entries[i].rules.v[r].v) >= 2}

ExpectedRule(r) ==
    LET own == AsArray(entries[Max(RuleSetters(r))].rules.v[r])
    IN  IF Len(own) = 1 /\ OptionDonors(r) # {}
        THEN own \o Tail(entries[Max(OptionDonors(r))].rules.v[r].v)
        ELSE own

\* C7. Rule merge: rules[r] is an array whose severity comes from the last
\* matching element that sets r (a bare severity becomes [severity]); when
\* that element gives only a severity the options come from the nearest
\* earlier matching element that sets r with at least one option; otherwise
\* its own options are kept.  Element 1 {r: "error"} and element 2
\* {r: ["error", "a"]} give {r: ["error", "a"]}.
C7_RuleMerge ==
    (Extracted /\ extracted.ok) =>
        /\ DOMAIN extracted.value.rules.v =
              {r \in RuleIds : RuleSetters(r) # {}}
        /\ \A r \in DOMAIN extracted.value.rules.v :
              extracted.value.rules.v[r] = List(ExpectedRule(r))
        /\ entries = <<EBare, ETop>> =>
              extracted.value.rules = Obj(Keys1("r", List(<<"error", "a">>)))

C7_Witness ==
    /\ Extracted
    /\ extracted.ok
    /\ Cardinality(OptionDonors("r")) >= 2
    /\ Len(AsArray(entries[Max(RuleSetters("r"))].rules.v["r"])) = 1
    /\ extracted.value.rules.v["r"] = List(<<"error", "b">>)

MergedFields == {"env", "globals", "parserOptions", "settings"}

\* The key paths that resolve in a value.
RECURSIVE PathsOf(_)
PathsOf(v) ==
    IF ~isNonNullObject(v) THEN {}
    ELSE UNION {{<<k>>} \cup {<<k>> \o q : q \in PathsOf(v.v[k])} :
                k \in DOMAIN v.v}

RECURSIVE At(_, _)
At(v, path) == IF path = <<>> THEN v ELSE At(v.v[Head(path)], Tail(path))

\* The matching elements whose field f defines the key path.
Definers(f, path) ==
    {i \in 1..Len(entries) :
        /\ Applies(entries[i], targetFilePath)
        /\ path \in PathsOf(entries[i][f])}

\* A higher-precedence matching element holds a non-container value on the
\* way to the key path.
Shadowed(f, i, path) ==
    \E j \in (i + 1)..Len(entries) : \E n \in 1..Len(path) :
        /\ Applies(entries[j], targetFilePath)
        /\ SubSeq(path, 1, n) \in PathsOf(entries[j][f])
        /\ ~isNonNullObject(At(entries[j][f], SubSeq(path, 1, n)))

PluginElements == {EPluginA, EPluginB, EPluginC, EPluginPool}

\* C9 as stated. Plugin conflict detection: two matching elements that
\* contribute a reference for the same plugin id make extractConfig fail
\* with a plugin-conflict error when their definitions differ, and succeed
\* keeping the higher-precedence reference when the definitions are the
\* same object.
C9_Original ==
    (/\ Extracted
     /\ Len(entries) = 2
     /\ \A i \in 1..2 : entries[i] \in PluginElements
     /\ \A i \in 1..2 : Applies(entries[i], targetFilePath)) =>
        LET low == entries[1].plugins.v[1]
            high == entries[2].plugins.v[1]
        IN  IF low.definition # high.definition
            THEN /\ ~extracted.ok
                 /\ extracted.error.kind = "DuplicatedPlugin"
                 /\ extracted.error.key = "p"
            ELSE /\ extracted.ok
                 /\ extracted.value.plugins = PluginMap(<<high>>)

\* The matching elements whose processor is a non-empty string.
ProcessorSetters ==
    {i \in 1..Len(entries) :
        /\ Applies(entries[i], targetFilePath)
        /\ ~Falsy(entries[i].processor)}

\* The matching elements whose processor is a string, empty or not.
ProcessorStrings ==
    {i \in 1..Len(entries) :
        /\ Applies(entries[i], targetFilePath)
        /\ entries[i].processor # Undef}

\* The matching elements that list plugin `id`.
PluginListers(id) ==
    {i \in 1..Len(entries) :
        /\ Applies(entries[i], targetFilePath)
        /\ entries[i].plugins # Undef
        /\ PluginIndex(entries[i].plugins, id) # 0}

\* The reference the merged plugins hold for `id`: that of the last
\* matching element that lists it.
MergedPlugin(id) ==
    LET e == entries[Max(PluginListers(id))]
    IN  e.plugins.v[PluginIndex(e.plugins, id)]

\* The merged plugins have processor `name`, "pluginId/processorName".
ProcessorFound(name) ==
    /\ Len(name.segs) >= 2
    /\ PluginListers(name.segs[1]) # {}
    /\ Tail(name.segs) \in MergedPlugin(name.segs[1]).definition.processors

\* The object {definition, id} a processor name resolves to.
ResolvedProcessor(name) ==
    [definition |-> <<MergedPlugin(name.segs[1]).definition.name,
                      Tail(name.segs)>>,
     id |-> name]

\* C11 as stated. Processor resolution: when extractConfig returns, its
\* processor is null (no matching element sets a processor string) or
\* {definition, id} with id the string of the last matching element that
\* sets one, of the form pluginId/processorName, and definition the
\* processor of that name of the merged plugin; a string without "/" fails
\* with an invalid-processor-name error and a string whose plugin or
\* processor is missing fails with a processor-not-found error.
C11_Original ==
    Extracted =>
        LET name == entries[Max(ProcessorStrings)].processor
        IN  /\ (extracted.ok /\ ProcessorStrings = {}) =>
                  extracted.value.processor = Null
            /\ (extracted.ok /\ ProcessorStrings # {}) =>
                  /\ ProcessorFound(name)
                  /\ extracted.value.processor = ResolvedProcessor(name)
            /\ (ProcessorStrings # {} /\ Len(name.segs) < 2) =>
                  /\ ~extracted.ok
                  /\ extracted.error.kind = "InvalidProcessorName"
            /\ (ProcessorStrings # {} /\ Len(name.segs) >= 2
                   /\ ~ProcessorFound(name)) =>
                  /\ ~extracted.ok
                  /\ extracted.error.kind = "ProcessorNotFound"

\* C11 as amended. An empty processor string counts as not set.  When
\* extractConfig returns, its processor is null (no matching element sets
\* a non-empty processor string) or {definition, id} with id the string of
\* the last matching element that sets a non-empty one, of the form
\* pluginId/processorName, and definition the processor of that name of the
\* merged plugin.  When that string has no "/" the extraction fails, with
\* an invalid-processor-name error if the walk over the elements raised
\* nothing; when its plugin or processor is missing from the merged plugins
\* the extraction fails, with a processor-not-found error if the walk
\* raised nothing.
C11_ProcessorResolution ==
    Extracted =>
        LET name == entries[Max(ProcessorSetters)].processor
        IN  /\ (extracted.ok /\ ProcessorSetters = {}) =>
                  extracted.value.processor = Null
            /\ (extracted.ok /\ ProcessorSetters # {}) =>
                  /\ ProcessorFound(name)
                  /\ extracted.value.processor = ResolvedProcessor(name)
            /\ (ProcessorSetters # {} /\ Len(name.segs) < 2) =>
                  /\ ~extracted.ok
                  /\ WalkReaches(0) =>
                        extracted.error.kind = "InvalidProcessorName"
            /\ (ProcessorSetters # {} /\ Len(name.segs) >= 2
                   /\ ~ProcessorFound(name)) =>
                  /\ ~extracted.ok
                  /\ WalkReaches(0) =>
                        extracted.error.kind = "ProcessorNotFound"

\* A processor is resolved although a lower-precedence matching element
\* sets another name and a non-matching element a third.
C11_Witness ==
    /\ Extracted
    /\ extracted.ok
    /\ extracted.value.processor # Null
    /\ Cardinality(ProcessorSetters) >= 2
    /\ \E i \in 1..Len(entries) :
          /\ ~Applies(entries[i], targetFilePath)
          /\ ~Falsy(entries[i].processor)

C13_NonDestructive ==
    /\ [](repeated.op = "again" => repeated.outcome = extracted)
    /\ [][(extracted' # extracted \/ repeated' # repeated)
             => entries' = entries]_vars

\* Two matching elements set the same rule, the one of higher precedence as
\* a one-element array and the other with options, and both calls returned.
C13_Witness ==
    /\ repeated.op = "again"
    /\ repeated.outcome.ok
    /\ \E i, j \in 1..Len(entries) : \E k \in RuleIds :
          /\ i < j
          /\ Applies(entries[i], targetFilePath)
          /\ Applies(entries[j], targetFilePath)
          /\ isNonNullObject(entries[i].rules)
          /\ isNonNullObject(entries[j].rules)
          /\ Get(entries[i].rules, k).t = "list"
          /\ Get(entries[j].rules, k).t = "list"
          /\ Len(Get(entries[i].rules, k).v) >= 2
          /\ Len(Get(entries[j].rules, k).v) = 1
          /\ Len(extracted.value.rules.v[k].v) >= 2

-----------------------------------------------------------------------------
(* Properties of the factory *)

FactoryCalled == call.op \in {"create", "loadFile", "loadOnDirectory"}

\* The generator the called method hands to create (null when there is no
\* config data), or the error thrown before create is reached
CallElements ==
    IF call.op = "create"
    THEN Returned(IF call.configData # Null
                  THEN _normalizeConfigData(fs, call.configData,
                                            join(Cwd, ".clioptions"), <<>>)
                  ELSE Null)
    ELSE IF call.op = "loadFile"
    THEN Returned(_loadConfigData(fs, call.filePath, <<>>))
    ELSE _loadConfigDataOnDirectory(fs, call.directoryPath, <<>>)

ListsMissingPlugin ==
    \/ /\ call.op = "create"
       /\ call.configData =
              [CliConfigData EXCEPT !.plugins = List(<<Prim("q")>>)]
    \/ /\ call.op = "loadOnDirectory"
       /\ call.directoryPath = <<"w", "a">>
       /\ fs[join(<<"w", "a">>, ".eslintrc.json")] =
              FileData(ConfigOfKind(<<"w", "a">>, "pluginMissing"))

\* C10 as stated. Lazy plugin error: a plugin that fails to load never makes
\* create or loadOnDirectory fail; the call returns its array.
C10_Original == ListsMissingPlugin => call.outcome.ok

-----------------------------------------------------------------------------
(* Properties of the enumerator *)

Enumerated == call.op \in {"iterateFiles", "getConfigArrayForFile"}

\* The elements of the array paired with the k-th file
ConfigOf(k) == heap[call.items[k].config]

ProperAncestor(dir, of) ==
    Len(dir) < Len(of) /\ SubSeq(of, 1, Len(dir)) = dir

\* The config file of the directory makes an array whose isRoot() is true.
RootDirectory(dir) ==
    LET config == _loadConfigDataOnDirectory(fs, dir, <<>>)
    IN  /\ config.ok
        /\ config.value # Null
        /\ Spread(config.value).ok
        /\ isRoot(Spread(config.value).value)

\* The nearest directory at or above `dir` whose config is root, if any
RECURSIVE NearestRoot(_)
NearestRoot(dir) ==
    IF RootDirectory(dir) THEN {dir}
    ELSE IF dir = <<>> THEN {}
    ELSE NearestRoot(dirname(dir))

CascadeWithRoot ==
    /\ fs = Layout(Kinds("none", "plain", "root"))
    /\ call.before[enumerator.baseConfigArray] = <<>>
    /\ enumerator.specificConfigPath = <<>>
    /\ enumerator.cliConfigData = Null
    /\ enumerator.useEslintrc

Rank(element) ==
    IF element.filePath = join(enumerator.cwd, ".baseconfig") THEN 0
    ELSE IF element.filePath = join(enumerator.cwd, ".clioptions") THEN 9
    ELSE IF element.filePath = enumerator.specificConfigPath THEN 8
    ELSE Len(element.filePath)

\* C2 as stated. Finalization order: in every array that iterateFiles
\* yields or getConfigArrayForFile returns, the base config elements come
\* first, then those of the ancestor directories (root-most first), then
\* those of the directory's own config file, then those of the --config
\* file, then those of the CLI options.
C2_Original ==
    Enumerated =>
        \A k \in 1..Len(call.items) :
            \A i, j \in 1..Len(ConfigOf(k)) :
                i < j => Rank(ConfigOf(k)[i]) <= Rank(ConfigOf(k)[j])

\* C3 as stated. The base config is extended by all configs: every array
\* that iterateFiles yields or getConfigArrayForFile returns contains every
\* element of the base config array.
C3_Original ==
    Enumerated =>
        \A k \in 1..Len(call.items) :
            \A b \in 1..Len(call.before[enumerator.baseConfigArray]) :
                \E i \in 1..Len(ConfigOf(k)) :
                    ConfigOf(k)[i] =
                        call.before[enumerator.baseConfigArray][b]


-----------------------------------------------------------------------------
(* Properties of normalization *)

\* The path that create names as the file of the config object
OwnPath == join(Cwd, ".clioptions")

\* The generator that create spreads
Normalized == CallElements.value

\* The config an `extends` entry names, with the file path and the name
\* its elements are given
ExtendedConfig(extendName, filePath) ==
    IF extendName.kind = "plugin:"
    THEN [configData |->
              _loadPlugin(extendName.pluginName, filePath)
                  .definition.configs[extendName.name],
          filePath |-> _loadPlugin(extendName.pluginName, filePath).filePath,
          name |-> ExtendsString(extendName)]
    ELSE [configData |->
              loadConfigFile(fs, dirname(filePath) \o extendName.path).value,
          filePath |-> dirname(filePath) \o extendName.path,
          name |-> <<>>]

RECURSIVE ConcatAll(_)
ConcatAll(seqs) ==
    IF seqs = <<>> THEN <<>> ELSE Head(seqs) \o ConcatAll(Tail(seqs))

\* The flattening the documentation describes: the elements of each
\* `extends` entry, the body, the elements of each `overrides` item, each
\* with the predicates of the nodes it lies under (`outer`) and its own
RECURSIVE Flattened(_, _, _, _)
Flattened(configData, filePath, nameOption, outer) ==
    LET name == IF nameOption = <<>> THEN <<basename(filePath)>>
                ELSE nameOption
        own == defineMatch(configData.files, configData.excludedFiles)
        preds == IF own = Undef THEN outer ELSE Append(outer, own)
        extendList == IF configData.extends = Undef THEN <<>>
                      ELSE IF configData.extends.t = "list"
                      THEN configData.extends.v
                      ELSE <<configData.extends>>
        overrideList == IF configData.overrides = Undef THEN <<>>
                        ELSE configData.overrides.v
    IN  ConcatAll([i \in 1..Len(extendList) |->
                      LET x == ExtendedConfig(extendList[i], filePath)
                      IN  Flattened(x.configData, x.filePath, x.name, preds)])
        \o <<[name |-> name, filePath |-> filePath,
              rules |-> configData.rules, preds |-> preds]>>
        \o ConcatAll([i \in 1..Len(overrideList) |->
                         Flattened(overrideList[i], filePath,
                                   OverridesName(name, i), preds)])

Expected == Flattened(call.configData, OwnPath, <<>>, <<>>)

\* C14 as stated. Root implies unconditional: any element produced by
\* normalization whose root is true has no matchFile predicate.
C14_Original ==
    (call.op = "create" /\ call.outcome.ok) =>
        \A i \in 1..Len(heap[call.outcome.value]) :
            heap[call.outcome.value][i].root = Prim("true") =>
                heap[call.outcome.value][i].matchFile = Undef

\* C15 as stated. Elements that come from an `extends` entry never carry
\* root, so that extending a config that declares root does not make
\* isRoot() true and does not discard the parent in create.
C15_Original ==
    (call.op = "create" /\ call.outcome.ok) =>
        /\ \A i \in 1..Len(Normalized.items) :
              Normalized.items[i].filePath # OwnPath =>
                  Normalized.items[i].root # Prim("true")
        /\ (call.configData.root = Undef /\ call.parent # NoArray) =>
              /\ ~isRoot(Normalized.items)
              /\ SubSeq(heap[call.outcome.value], 1,
                        Len(call.before[call.parent])) =
                     call.before[call.parent]

\* C16 as stated. Predicate conjunction: an element that lies under nodes
\* with files/excludedFiles accepts a path exactly when the predicates of
\* all those nodes and its own accept it, and combining the predicates
\* never raises.
C16_Original ==
    call.op = "create" =>
        /\ Normalized.error # defineAnd(Undef, Undef).error
        /\ \A i \in 1..Len(Normalized.items) :
              i <= Len(Expected) =>
                  \A p \in TargetPaths :
                      Applies(Normalized.items[i], p) <=>
                          \A k \in 1..Len(Expected[i].preds) :
                              CallMatchFile(Expected[i].preds[k], p)

\* C17 as stated. Flattening order: normalization yields the elements of
\* each `extends` entry in the listed order, then the element of the body,
\* then the elements of each `overrides` item in the listed order, and so
\* on within each extended config and each overrides item.
C17_Original ==
    call.op = "create" =>
        /\ Normalized.error = Null
        /\ [i \in 1..Len(Normalized.items) |->
               <<Normalized.items[i].filePath, Normalized.items[i].name,
                 Normalized.items[i].rules>>] =
           [i \in 1..Len(Expected) |->
               <<Expected[i].filePath, Expected[i].name, Expected[i].rules>>]

\* C18 as stated. A config without extends and without overrides is
\* normalized, without an error, to exactly one element: its body, with
\* the predicate of its files/excludedFiles and with a plugins mapping
\* that has one entry per listed plugin, keyed by the shorthand id.
C18_Original ==
    (/\ call.op = "create"
     /\ call.configData.extends = Undef
     /\ call.configData.overrides = Undef) =>
        /\ Normalized.error = Null
        /\ Len(Normalized.items) = 1
        /\ Normalized.items[1].rules = call.configData.rules
        /\ Normalized.items[1].matchFile =
               defineMatch(call.configData.files,
                           call.configData.excludedFiles)
        /\ IF call.configData.plugins = Undef
           THEN Normalized.items[1].plugins = Undef
           ELSE /\ Normalized.items[1].plugins.t = "map"
                /\ {Normalized.items[1].plugins.v[j].id :
                       j \in 1..Len(Normalized.items[1].plugins.v)} =
                   {getShorthandName(
                        normalizePackageName(
                            call.configData.plugins.v[k].v, "eslint-plugin"),
                        "eslint-plugin") :
                       k \in 1..Len(call.configData.plugins.v)}
                /\ Len(Normalized.items[1].plugins.v) =
                       Len(call.configData.plugins.v)


-----------------------------------------------------------------------------
(* Properties of overlapping patterns *)

\* What the i-th pattern of the call yields when the called iterateFiles
\* is given that pattern alone
PatternEntries(i) ==
    IF "second" \in DOMAIN call
    THEN iterateFilesSecond(call.before, NoCache, enumerator,
                            <<call.patterns[i]>>).items
    ELSE iterateFiles(call.before, NoCache, enumerator,
                      <<call.patterns[i]>>).items

PathsReached(i) ==
    {PatternEntries(i)[k].filePath : k \in 1..Len(PatternEntries(i))}

\* The flag that the earliest pattern reaching the file gives it
EarliestFlag(filePath) ==
    LET i == CHOOSE i \in 1..Len(call.patterns) :
                 /\ filePath \in PathsReached(i)
                 /\ \A j \in 1..(i - 1) : filePath \notin PathsReached(j)
        k == CHOOSE k \in 1..Len(PatternEntries(i)) :
                 PatternEntries(i)[k].filePath = filePath
    IN  PatternEntries(i)[k].flag

\* C19 as stated. Dedup: one iterateFiles call yields each absolute file
\* path at most once, whatever the overlap of the patterns, and the entry
\* kept for a path is the one of the earliest pattern that reaches it.
C19_Original ==
    (call.op = "iterateFiles" /\ call.error = Null) =>
        /\ \A k1, k2 \in 1..Len(call.items) :
              call.items[k1].filePath = call.items[k2].filePath => k1 = k2
        /\ \A k \in 1..Len(call.items) :
              call.items[k].flag = EarliestFlag(call.items[k].filePath)
        /\ \A i \in 1..Len(call.patterns) :
              \A filePath \in PathsReached(i) :
                  \E k \in 1..Len(call.items) :
                      call.items[k].filePath = filePath

\* C20 as stated. A pattern that names an existing file which the ignored
\* paths contain surfaces in the output as an entry of that file with the
\* flag "Warning", whatever other patterns precede or follow it.
C20_Original ==
    (call.op = "iterateFiles" /\ call.error = Null) =>
        \A i \in 1..Len(call.patterns) :
            (/\ isFile(enumerator.fs, enumerator.cwd \o call.patterns[i])
             /\ _isIgnoredFile(enumerator,
                               enumerator.cwd \o call.patterns[i])) =>
                \E k \in 1..Len(call.items) :
                    /\ call.items[k].filePath =
                           enumerator.cwd \o call.patterns[i]
                    /\ call.items[k].flag = "Warning"


-----------------------------------------------------------------------------
(* Properties of the directory walk *)

\* The files to lint that the disk holds
AllFiles ==
    UNION {{join(d, Tree[d][k]) : k \in 1..Len(Tree[d])} : d \in DOMAIN Tree}
        \ DOMAIN Tree

\* One call of iterateFiles on one pattern that is walked: a directory or
\* a glob
SingleWalk ==
    /\ call.op = "iterateFiles"
    /\ Len(call.patterns) = 1
    /\ ~isFile(enumerator.fs, enumerator.cwd \o call.patterns[1])

WalkIsGlob == ~isDirectory(enumerator.cwd \o call.patterns[1])

WalkStart ==
    IF WalkIsGlob THEN enumerator.cwd \o getGlobParent(call.patterns[1])
    ELSE enumerator.cwd \o call.patterns[1]

\* The `recursive` argument the called iterateFiles gives the walk
WalkRecursive ==
    IF ~WalkIsGlob THEN TRUE
    ELSE IF "second" \in DOMAIN call
    THEN globRecursiveSecond(
             getGlobParent(call.patterns[1]),
             SubSeq(call.patterns[1],
                    Len(getGlobParent(call.patterns[1])) + 1,
                    Len(call.patterns[1])))
    ELSE globRecursive(
             getGlobParent(call.patterns[1]),
             SubSeq(call.patterns[1],
                    Len(getGlobParent(call.patterns[1])) + 1,
                    Len(call.patterns[1])))

\* The directory is the start of the walk, or lies below it with no
\* ignored directory on the way down from the start
WalkReachesDirectory(dir) ==
    \/ dir = WalkStart
    \/ /\ WalkRecursive
       /\ Len(WalkStart) < Len(dir)
       /\ SubSeq(dir, 1, Len(WalkStart)) = WalkStart
       /\ \A n \in (Len(WalkStart) + 1)..Len(dir) :
             ~_isIgnoredFile(enumerator, SubSeq(dir, 1, n))

\* The config in effect for a directory of the walk: the config of the
\* ancestors of the start, then the config of each directory on the way down
RECURSIVE WalkConfig(_)
WalkConfig(dir) ==
    Bind(IF dir = WalkStart
         THEN _loadConfigInAncestors(call.before, enumerator, dir)
         ELSE WalkConfig(dirname(dir)),
         LAMBDA parent :
    _loadConfigOnDirectory(parent.heap, enumerator, dir,
                           parent.outcome.value))

DirectoryConfig(dir) == WalkConfig(dir).heap[WalkConfig(dir).outcome.value]

WalkMatches(filePath) ==
    IF WalkIsGlob
    THEN selectorMatch(call.patterns[1],
                       relative(enumerator.cwd, filePath))
    ELSE \/ extRegExpTest(enumerator, relative(enumerator.cwd, filePath))
         \/ \E i \in 1..Len(DirectoryConfig(dirname(filePath))) :
               /\ DirectoryConfig(dirname(filePath))[i].matchFile # Undef
               /\ CallMatchFile(
                      DirectoryConfig(dirname(filePath))[i].matchFile,
                      relative(enumerator.cwd, filePath))

-----------------------------------------------------------------------------
(* Properties of per-directory discovery *)

Candidates == 1..Len(configFilenames)

CandidatePath(k) == join(call.directoryPath, configFilenames[k])

\* The candidate exists and holds a config: a config object, a
\* package.json with an eslintConfig member, or an empty YAML or legacy file
\* (which is the empty config)
YieldsConfig(k) ==
    /\ CandidatePath(k) \in DOMAIN fs
    /\ \/ fs[CandidatePath(k)].t = "data"
       \/ /\ fs[CandidatePath(k)].t = "package"
          /\ fs[CandidatePath(k)].eslintConfig # Undef
       \/ /\ fs[CandidatePath(k)].t = "empty"
          /\ configFilenames[k] \in {".eslintrc.yaml", ".eslintrc.yml",
                                     ".eslintrc"}

CandidateBroken(k) ==
    /\ CandidatePath(k) \in DOMAIN fs
    /\ fs[CandidatePath(k)].t = "broken"

\* The first candidate, in the fixed order, that holds a config
FirstConfig == CHOOSE k \in Candidates :
                   /\ YieldsConfig(k)
                   /\ \A j \in 1..(k - 1) : ~YieldsConfig(j)

ParentElements ==
    IF call.parent = NoArray THEN <<>> ELSE call.before[call.parent]

-----------------------------------------------------------------------------
(* Properties of the caches *)

\* One call of the first FileEnumerator's iterateFiles that raised nothing
Iterated ==
    /\ call.op = "iterateFiles"
    /\ "second" \notin DOMAIN call
    /\ call.error = Null

\* The directory has a config file that loadOnDirectory finds
HasConfig(dir) ==
    /\ _loadConfigDataOnDirectory(fs, dir, <<>>).ok
    /\ _loadConfigDataOnDirectory(fs, dir, <<>>).value # Null

\* What finalization composes onto the array when nothing is cached
Composed(input) ==
    heap[_finalizeConfigArray(heap, NoCache, enumerator, input)
             .outcome.value]

\* C23 as stated. Finalization cache: the cached value for an input array
\* is what composing --config and the CLI options onto it produces, and
\* the same finalized array is returned for the same input array; hence,
\* after any call, all files of one directory, and of its subdirectories
\* without a config file of their own, are yielded with the same config
\* object, and a subdirectory with a config file of its own gets another.
C23_Original ==
    Iterated =>
        /\ \A input \in DOMAIN cache :
              heap[cache[input]] = Composed(input)
        /\ \A k1, k2 \in 1..Len(call.items) :
              LET d1 == dirname(call.items[k1].filePath)
                  d2 == dirname(call.items[k2].filePath)
              IN  /\ d1 = d2 =>
                        call.items[k1].config = call.items[k2].config
                  /\ (d1 = dirname(d2) /\ ~HasConfig(d2)) =>
                        call.items[k1].config = call.items[k2].config
                  /\ (d1 = dirname(d2) /\ HasConfig(d2)) =>
                        call.items[k1].config # call.items[k2].config

\* The number of times the directory is in the sequence
Occurrences(seq, dir) == Cardinality({i \in 1..Len(seq) : seq[i] = dir})

\* C24 as stated. Each directory is normalized at most once: during one
\* iterateFiles call over any pattern list, the config file of any given
\* directory is loaded and normalized at most once.
C24_Original ==
    Iterated =>
        \A dir \in {d \in ConfigDirs \cup {HomeDir} : HasConfig(d)} :
            Occurrences(iterateFilesVisited(call.before, enumerator,
                                            call.patterns), dir) <= 1


-----------------------------------------------------------------------------
(* Properties of glob patterns *)

\* The part of the pattern after its glob parent
GlobRemainder ==
    SubSeq(call.patterns[1], Len(getGlobParent(call.patterns[1])) + 1,
           Len(call.patterns[1]))

\* Recursive exactly when the glob parent is not "." and the remainder has
\* a separator or a `**`
StatedRecursive ==
    /\ getGlobParent(call.patterns[1]) # <<>>
    /\ \/ Len(GlobRemainder) >= 2
       \/ \E i \in 1..Len(GlobRemainder) : GlobRemainder[i] = "**"

\* The directories a walk from cwd joined with the glob parent enters
StatedReach(dir) ==
    \/ dir = enumerator.cwd \o getGlobParent(call.patterns[1])
    \/ /\ StatedRecursive
       /\ Len(enumerator.cwd \o getGlobParent(call.patterns[1])) < Len(dir)
       /\ SubSeq(dir, 1,
                 Len(enumerator.cwd \o getGlobParent(call.patterns[1]))) =
              enumerator.cwd \o getGlobParent(call.patterns[1])
       /\ \A n \in (Len(enumerator.cwd
                        \o getGlobParent(call.patterns[1])) + 1)..Len(dir) :
             ~_isIgnoredFile(enumerator, SubSeq(dir, 1, n))

\* C25 as stated. Glob handling: for a pattern that names no existing
\* path, the walk starts at cwd joined with the glob parent, uses the glob
\* as selector, and is recursive exactly when the glob parent is not "." and
\* the remainder has a separator or a `**`: the files yielded are the files
\* the selector matches in the start directory and, when recursive, below.
C25_Original ==
    (/\ call.op = "iterateFiles"
     /\ Len(call.patterns) = 1
     /\ ~isFile(enumerator.fs, enumerator.cwd \o call.patterns[1])
     /\ ~isDirectory(enumerator.cwd \o call.patterns[1])
     /\ call.error = Null) =>
        {call.items[k].filePath : k \in 1..Len(call.items)} =
            {g \in AllFiles :
                /\ StatedReach(dirname(g))
                /\ selectorMatch(call.patterns[1],
                                 relative(enumerator.cwd, g))}


-----------------------------------------------------------------------------
(* Properties of the walk through the ancestors *)

AncestorsCalled == call # NoCall /\ call.op = "loadInAncestors"

\* The directories above `path`, nearest first
RECURSIVE Ancestors(_)
Ancestors(path) ==
    IF dirname(path) = path THEN <<>>
    ELSE <<dirname(path)>> \o Ancestors(dirname(path))

\* What reading the candidate files of `dir` gives
DirectoryLoad(dir) == _loadConfigDataOnDirectory(fs, dir, <<>>)

\* The error that loading the config of `dir` raises, Null when none
FailureAt(dir) ==
    Bind(DirectoryLoad(dir), LAMBDA load :
    IF ~load.ok THEN load.error
    ELSE IF load.value # Null /\ ~Spread(load.value).ok
    THEN Spread(load.value).error
    ELSE Null)

ElementsOf(dir) ==
    Bind(DirectoryLoad(dir), LAMBDA load :
    IF load.ok /\ load.value # Null /\ Spread(load.value).ok
    THEN Spread(load.value).value
    ELSE <<>>)

IsPermission(error) ==
    error # Null /\ ErrorCode(error) \in {"EACCES", "EPERM"}

\* The walk visits the k-th ancestor: the nearer ones loaded without an
\* error and none of them is root
WalkVisits(k) ==
    \A j \in 1..(k - 1) :
        /\ FailureAt(Ancestors(call.directoryPath)[j]) = Null
        /\ ~isRoot(ElementsOf(Ancestors(call.directoryPath)[j]))

\* The elements of the first k ancestors, the farthest first
RECURSIVE Accumulated(_)
Accumulated(k) ==
    IF k = 0 THEN <<>>
    ELSE ElementsOf(Ancestors(call.directoryPath)[k]) \o Accumulated(k - 1)

CallParent ==
    IF call.parent # NoArray THEN call.before[call.parent] ELSE <<>>

\* Every error but a permission error gets out of the call.
OtherErrorsPropagate ==
    \A k \in 1..Len(Ancestors(call.directoryPath)) :
        Bind(FailureAt(Ancestors(call.directoryPath)[k]), LAMBDA error :
        (WalkVisits(k) /\ error # Null /\ ~IsPermission(error))
            => /\ ~call.outcome.ok
               /\ call.outcome.error = error
               /\ heap = call.before)

\* A candidate file that is missing is passed over: the config of a
\* directory that has only a package.json comes from that file.
MissingCandidatesSkipped ==
    \A k \in 1..Len(Ancestors(call.directoryPath)) :
        Bind(Ancestors(call.directoryPath)[k], LAMBDA dir :
        (/\ join(dir, "package.json") \in DOMAIN fs
         /\ join(dir, ".eslintrc.json") \notin DOMAIN fs)
            => /\ Len(ElementsOf(dir)) = 1
               /\ ElementsOf(dir)[1].filePath = join(dir, "package.json"))

\* C26 as stated: a permission error raised while the config of an ancestor
\* directory is loaded ends the walk without an error, and the result holds
\* exactly the elements of the directories visited before it and the
\* parent's; a missing candidate file is passed over; every other error
\* gets out of the call.
C26_Original ==
    AncestorsCalled =>
        /\ \A k \in 1..Len(Ancestors(call.directoryPath)) :
              (/\ WalkVisits(k)
               /\ IsPermission(FailureAt(Ancestors(call.directoryPath)[k])))
                  => /\ call.outcome.ok
                     /\ heap[call.outcome.value]
                            = Accumulated(k - 1) \o CallParent
        /\ MissingCandidatesSkipped
        /\ OtherErrorsPropagate

\* C26 as the code has it: a permission error raised while a candidate file
\* of an ancestor directory is read ends the walk.  The result holds the
\* elements of the directories visited before it and the parent's, and
\* before them the personal config's when there are none of them and the
\* flag is set; an error of the personal config's load gets out of the
\* call.  A permission error raised while an extended file is read gets out
\* of the call, as every other error does, and a missing candidate file is
\* passed over.
C26_PermissionEndsWalk ==
    AncestorsCalled =>
        /\ \A k \in 1..Len(Ancestors(call.directoryPath)) :
              Bind(Ancestors(call.directoryPath)[k], LAMBDA dir :
              Bind(Accumulated(k - 1) \o CallParent, LAMBDA regular :
              /\ (/\ WalkVisits(k)
                  /\ ~DirectoryLoad(dir).ok
                  /\ IsPermission(DirectoryLoad(dir).error))
                     => IF Len(regular) = 0 /\ call.usePersonalEslintrc
                        THEN IF FailureAt(HomeDir) # Null
                             THEN /\ ~call.outcome.ok
                                  /\ call.outcome.error = FailureAt(HomeDir)
                             ELSE /\ call.outcome.ok
                                  /\ heap[call.outcome.value]
                                         = ElementsOf(HomeDir) \o regular
                        ELSE /\ call.outcome.ok
                             /\ heap[call.outcome.value] = regular
              /\ (/\ WalkVisits(k)
                  /\ DirectoryLoad(dir).ok
                  /\ IsPermission(FailureAt(dir)))
                     => /\ ~call.outcome.ok
                        /\ call.outcome.error = FailureAt(dir)))
        /\ MissingCandidatesSkipped
        /\ OtherErrorsPropagate

\* The walk met a permission error in the second directory and gave the
\* elements of the first and the parent's.
C26_Witness ==
    /\ AncestorsCalled
    /\ call.parent # NoArray
    /\ WalkVisits(2)
    /\ ~DirectoryLoad(Ancestors(call.directoryPath)[2]).ok
    /\ IsPermission(FailureAt(Ancestors(call.directoryPath)[2]))
    /\ Len(ElementsOf(Ancestors(call.directoryPath)[1])) > 0
    /\ call.outcome.ok
    /\ heap[call.outcome.value] = Accumulated(1) \o CallParent

\* The walk ended without an error of its own: by a root config, at the top
\* directory, or at a permission error of a candidate file.
WalkEnds ==
    \A k \in 1..Len(Ancestors(call.directoryPath)) :
        Bind(Ancestors(call.directoryPath)[k], LAMBDA dir :
        (WalkVisits(k) /\ FailureAt(dir) # Null)
            => ~DirectoryLoad(dir).ok /\ IsPermission(FailureAt(dir)))

\* The walk found a config file in a directory that it visited.
FoundRegular ==
    \E k \in 1..Len(Ancestors(call.directoryPath)) :
        /\ WalkVisits(k)
        /\ FailureAt(Ancestors(call.directoryPath)[k]) = Null
        /\ Len(ElementsOf(Ancestors(call.directoryPath)[k])) > 0

\* The home directory was read: its elements are in the result, or the
\* error of reading it came out of the call.
HomeConsulted ==
    IF FailureAt(HomeDir) # Null
    THEN ~call.outcome.ok /\ call.outcome.error = FailureAt(HomeDir)
    ELSE /\ call.outcome.ok
         /\ \E i \in 1..Len(heap[call.outcome.value]) :
               heap[call.outcome.value][i].filePath
                   = join(HomeDir, ".eslintrc.json")

\* C27 as stated: the config of the home directory is loaded exactly when
\* the flag is set and the walk found no config file in an ancestor
\* directory, and its elements are then in the result; otherwise the home
\* directory is not read.
C27_Original ==
    (/\ AncestorsCalled
     /\ WalkEnds
     /\ join(HomeDir, ".eslintrc.json") \in DOMAIN fs)
        => (HomeConsulted <=> (call.usePersonalEslintrc /\ ~FoundRegular))

-----------------------------------------------------------------------------
(* Properties of the extension processors *)

\* The items that the called normalization gave
NormalizedItems ==
    IF call.op = "create" THEN heap[call.outcome.value]
    ELSE call.outcome.value

\* The body element of the called config is the j-th item.
IsBody(j) ==
    /\ NormalizedItems[j].filePath = join(Cwd, ".clioptions")
    /\ NormalizedItems[j].name = <<".clioptions">>

\* C28 as stated.  Every item of a normalized array is a config element
\* with a name, never an iterator (which has no name); for a loaded plugin with the processor
\* ".md" the array holds, before the element of the body, an element whose
\* processor is "<pluginId>/.md" and whose predicate accepts exactly the
\* paths that match "*.md".
C28_Original ==
    call.op \in {"create", "normalizeConfigData"} =>
        /\ call.outcome.ok =>
              \A i \in 1..Len(NormalizedItems) :
                  "generator" \notin DOMAIN NormalizedItems[i]
        /\ call.configData.plugins = List(<<Prim("p")>>) =>
              /\ call.outcome.ok
              /\ \E j \in 1..Len(NormalizedItems) :
                    /\ IsBody(j)
                    /\ \E i \in 1..(j - 1) :
                          /\ NormalizedItems[i].processor
                                 = ProcessorString(<<"p", ".md">>)
                          /\ NormalizedItems[i].matchFile
                                 = defineMatch(
                                       List(<<StarPattern(<<".md">>)>>),
                                       Undef)

-----------------------------------------------------------------------------
(* Properties of executeOnFiles *)

\* executeOnFiles was called on an engine with the cache of lint results,
\* and the enumerator raised nothing.
CachedRun ==
    /\ call.op = "executeOnFiles"
    /\ call.engine.lintResultCache # Null
    /\ iterateFiles(call.before, NoCache, enumerator, call.patterns).error
           = Null

\* The enumerated files that are to have a result
Reported ==
    SelectSeq(call.items, LAMBDA item : item.flag # "Ignored")

\* What the cache held for the file before the call
CachedBefore(item) ==
    getCachedLintResults(call.engine.lintResultCache, heap, item.filePath,
                         item.config)

Linted(item) ==
    verifyText(relative(call.engine.cwd, item.filePath), call.engine.fix)

\* The sum of a sequence of numbers
RECURSIVE Total(_)
Total(numbers) ==
    IF numbers = <<>> THEN 0 ELSE Head(numbers) + Total(Tail(numbers))

\* The counts of one kind in the results of the call
CountsOf(Count(_)) ==
    [i \in 1..Len(call.outcome.value.results) |->
        Count(call.outcome.value.results[i])]

\* C29 as stated.  With the cache of lint results on, a file without a flag
\* gets the result that the cache holds for it and its config (but is
\* linted again when that result has messages and fix is on), and is linted
\* and its result stored when the cache holds none; the results hold one
\* result object, never null, for each enumerated file that is not flagged
\* "Ignored", in the order of the enumeration, and the totals of the run
\* are the sums over the results.
C29_Original ==
    CachedRun =>
        /\ call.outcome.ok
        /\ Len(call.outcome.value.results) = Len(Reported)
        /\ \A i \in 1..Len(Reported) :
              Bind(call.outcome.value.results[i], LAMBDA result :
              /\ result # Null
              /\ Reported[i].flag = "Warning" =>
                    result.filePath = Reported[i].filePath
              /\ Reported[i].flag # "Warning" =>
                    IF /\ CachedBefore(Reported[i]) # Null
                       /\ ~(/\ Len(CachedBefore(Reported[i]).messages) > 0
                            /\ call.engine.fix)
                    THEN result = CachedBefore(Reported[i])
                    ELSE /\ result = Linted(Reported[i])
                         /\ getCachedLintResults(
                                engine.lintResultCache, heap,
                                Reported[i].filePath, Reported[i].config)
                               = result)
        /\ call.outcome.value.stats.errorCount
               = Total(CountsOf(LAMBDA result : result.errorCount))
        /\ call.outcome.value.stats.warningCount
               = Total(CountsOf(LAMBDA result : result.warningCount))
        /\ call.outcome.value.stats.fixableErrorCount
               = Total(CountsOf(LAMBDA result : result.fixableErrorCount))
        /\ call.outcome.value.stats.fixableWarningCount
               = Total(CountsOf(LAMBDA result : result.fixableWarningCount))

-----------------------------------------------------------------------------
(* Properties of the two ways to a file *)

\* What getConfigArrayForFile gives for the file on the enumerator as it
\* was before the call: the walk through the ancestors from the directory
\* of the file
ByAncestors(filePath) ==
    getConfigArrayForFile(call.before, NoCache, enumerator, filePath)

\* C30 as stated.  The config paired with a file that iterateFiles yields,
\* whether the file was named or found in a walk of a directory or glob,
\* has the elements, in the order, of the config that the walk through the
\* ancestors of the file gives, also with a base config and with a root
\* config in the directory of the file.
C30_Original ==
    (call.op = "iterateFiles" /\ call.error = Null) =>
        \A k \in 1..Len(call.items) :
            Bind(ByAncestors(call.items[k].filePath), LAMBDA direct :
            /\ direct.outcome.ok
            /\ heap[call.items[k].config]
                   = direct.heap[direct.outcome.value])

=============================================================================
